---- MODULE Spec2Model ----
(***************************************************************************)
(* Execution-plan analysis of the PostgreSQL optimizer dashboard           *)
(* (frontend/src/api/queries.ts): flattenPlanTree, generateNodeId,         *)
(* calculateCostContributions, identifyBottlenecks,                        *)
(* generateOptimizationSuggestions, analyzePlan, extractAnalyzeMetrics and *)
(* calculateEstimateAccuracy.                                              *)
(*                                                                         *)
(* Decoded JSON values are records [t |-> tag, v |-> payload]; the tag is  *)
(* always inspected before the payload.  Strings are TLA+ strings, read    *)
(* character by character with SubSeq where the code matches a pattern.    *)
(* Numbers are integers; a quotient the code computes in floating point    *)
(* (a percentage, an accuracy ratio) is the exact fraction [n, d], d > 0.  *)
(***************************************************************************)
EXTENDS Integers, Sequences, FiniteSets, TLC

VARIABLES
  tree,        \* the plan node the caller is assembling (a JSON object)
  planRaw,     \* the argument of the last analyzePlan call
  result,      \* what that call produced: a result, null, or a thrown error
  locals,      \* analyzePlan's rootPlan, executionTime and planningTime in that call
  accuracies,  \* what calculateEstimateAccuracy returned for result.flattenedNodes
  heap,        \* the arrays and Maps the calls in flight have created, by name
  pc           \* "input" | "analyzed" | "rendered" | "threw"

vars == <<tree, planRaw, result, locals, accuracies, heap, pc>>

(***************************************************************************)
(* JSON values and the JavaScript operators applied to them                *)
(***************************************************************************)
Keys ==
  {"Node Type", "Relation Name", "Alias", "Startup Cost", "Total Cost",
   "Plan Rows", "Plan Width", "Filter", "Index Cond", "Index Name",
   "Sort Key", "Join Type", "CTE Name", "Actual Rows", "Actual Loops",
   "Actual Startup Time", "Actual Total Time", "Plans",
   "Plan", "Execution Time", "Planning Time"}

Undef == [t |-> "undefined"]
Null == [t |-> "null"]
Num(n) == [t |-> "number", v |-> n]
Str(s) == [t |-> "string", v |-> s]
Arr(a) == [t |-> "array", v |-> a]
\* an object holding the fields of f; every other key is absent
Obj(f) == [t |-> "object", v |-> [k \in Keys |-> IF k \in DOMAIN f THEN f[k] ELSE Undef]]

\* x[k]: a property read; on null or undefined it is a TypeError (see Readable)
Get(x, k) == IF x.t = "object" THEN x.v[k] ELSE Undef
Readable(x) == x.t \notin {"null", "undefined"}
\* k in x
HasKey(x, k) == x.t = "object" /\ x.v[k].t # "undefined"

Truthy(x) ==
  CASE x.t \in {"undefined", "null"} -> FALSE
    [] x.t = "number" -> x.v # 0
    [] x.t = "string" -> x.v # ""
    [] OTHER -> TRUE

\* a || b
Or(a, b) == IF Truthy(a) THEN a ELSE b
\* a ?? b
Coalesce(a, b) == IF a.t \in {"undefined", "null"} THEN b ELSE a
\* a !== undefined
Defined(x) == x.t # "undefined"

(***************************************************************************)
(* Exact fractions                                                         *)
(***************************************************************************)
Frac(n, d) == [n |-> n, d |-> d]
FracLE(a, b) == a.n * b.d <= b.n * a.d
FracLT(a, b) == a.n * b.d < b.n * a.d
FracGE(a, k) == a.n >= k * a.d
FracAdd(a, b) == IF a.d = b.d THEN Frac(a.n + b.n, a.d) ELSE Frac(a.n * b.d + b.n * a.d, a.d * b.d)
FracMin(a, k) == IF a.n <= k * a.d THEN a ELSE Frac(k * a.d, a.d)

(***************************************************************************)
(* flattenPlanTree and generateNodeId                                      *)
(***************************************************************************)
Threw == [threw |-> TRUE, nodes |-> <<>>]
Flat(ns) == [threw |-> FALSE, nodes |-> ns]

\* faulty variant: the id also carries the node's total cost
generateNodeIdWithCost(plan, depth, parentId) ==
  LET nodeType == Or(Get(plan, "Node Type"), Str("Unknown")).v
      relation == Or(Or(Get(plan, "Relation Name"), Get(plan, "Alias")), Str("")).v
      base == nodeType \o "-" \o relation \o "-" \o ToString(depth) \o "-"
              \o ToString(Coalesce(Get(plan, "Total Cost"), Num(0)).v)
  IN  IF Truthy(parentId) THEN parentId.v \o "/" \o base ELSE base

generateNodeId(plan, depth, parentId) ==
  LET nodeType == Or(Get(plan, "Node Type"), Str("Unknown")).v
      relation == Or(Or(Get(plan, "Relation Name"), Get(plan, "Alias")), Str("")).v
      base == nodeType \o "-" \o relation \o "-" \o ToString(depth)
  IN  IF Truthy(parentId) THEN parentId.v \o "/" \o base ELSE base

\* the record flattenPlanTree builds for one plan node
\* faulty variant: the relation name of the flattened node ignores the alias
flatNodeOfRelationOnly(plan, depth, parentId) ==
  LET actualRows == Get(plan, "Actual Rows")
      planRows == Coalesce(Get(plan, "Plan Rows"), Num(0)).v
  IN  [id |-> generateNodeId(plan, depth, parentId),
       depth |-> depth,
       nodeType |-> Or(Get(plan, "Node Type"), Str("Unknown")).v,
       relationName |-> Get(plan, "Relation Name"),
       totalCost |-> Coalesce(Get(plan, "Total Cost"), Num(0)).v,
       startupCost |-> Coalesce(Get(plan, "Startup Cost"), Num(0)).v,
       planRows |-> planRows,
       planWidth |-> Coalesce(Get(plan, "Plan Width"), Num(0)).v,
       filter |-> Get(plan, "Filter"),
       indexCond |-> Get(plan, "Index Cond"),
       indexName |-> Get(plan, "Index Name"),
       sortKey |-> Get(plan, "Sort Key"),
       joinType |-> Get(plan, "Join Type"),
       cteName |-> Get(plan, "CTE Name"),
       parentId |-> parentId,
       raw |-> plan,
       actualRows |-> actualRows,
       actualLoops |-> Get(plan, "Actual Loops"),
       actualStartupTime |-> Get(plan, "Actual Startup Time"),
       actualTotalTime |-> Get(plan, "Actual Total Time"),
       rowsAccuracy |-> IF Defined(actualRows) /\ planRows > 0
                        THEN <<Frac(Coalesce(actualRows, Num(0)).v, planRows)>>
                        ELSE <<>>]

flatNodeOf(plan, depth, parentId) ==
  LET actualRows == Get(plan, "Actual Rows")
      planRows == Coalesce(Get(plan, "Plan Rows"), Num(0)).v
  IN  [id |-> generateNodeId(plan, depth, parentId),
       depth |-> depth,
       nodeType |-> Or(Get(plan, "Node Type"), Str("Unknown")).v,
       relationName |-> Or(Get(plan, "Relation Name"), Get(plan, "Alias")),
       totalCost |-> Coalesce(Get(plan, "Total Cost"), Num(0)).v,
       startupCost |-> Coalesce(Get(plan, "Startup Cost"), Num(0)).v,
       planRows |-> planRows,
       planWidth |-> Coalesce(Get(plan, "Plan Width"), Num(0)).v,
       filter |-> Get(plan, "Filter"),
       indexCond |-> Get(plan, "Index Cond"),
       indexName |-> Get(plan, "Index Name"),
       sortKey |-> Get(plan, "Sort Key"),
       joinType |-> Get(plan, "Join Type"),
       cteName |-> Get(plan, "CTE Name"),
       parentId |-> parentId,
       raw |-> plan,
       actualRows |-> actualRows,
       actualLoops |-> Get(plan, "Actual Loops"),
       actualStartupTime |-> Get(plan, "Actual Startup Time"),
       actualTotalTime |-> Get(plan, "Actual Total Time"),
       rowsAccuracy |-> IF Defined(actualRows) /\ planRows > 0
                        THEN <<Frac(Coalesce(actualRows, Num(0)).v, planRows)>>
                        ELSE <<>>]

\* the children flattenPlanTree recurses into: plan.Plans when it is an array
childPlans(plan) ==
  LET ps == Get(plan, "Plans")
  IN  IF Truthy(ps) /\ ps.t = "array" THEN ps.v ELSE <<>>

RECURSIVE flattenPlanTree(_, _, _)
RECURSIVE flattenChildren(_, _, _, _)

\* faulty variant: the node is pushed after its children
flattenPlanTreePostOrder(plan, depth, parentId) ==
  IF ~Readable(plan) THEN Threw
  ELSE LET flatNode == flatNodeOf(plan, depth, parentId)
           rest == flattenChildren(childPlans(plan), 1, depth + 1, Str(flatNode.id))
       IN  IF rest.threw THEN Threw ELSE Flat(rest.nodes \o <<flatNode>>)

flattenPlanTree(plan, depth, parentId) ==
  IF ~Readable(plan) THEN Threw
  ELSE LET flatNode == flatNodeOf(plan, depth, parentId)
           rest == flattenChildren(childPlans(plan), 1, depth + 1, Str(flatNode.id))
       IN  IF rest.threw THEN Threw ELSE Flat(<<flatNode>> \o rest.nodes)

\* the for-of loop over plan.Plans, from child i on
flattenChildren(plans, i, depth, id) ==
  IF i > Len(plans) THEN Flat(<<>>)
  ELSE LET childNodes == flattenPlanTree(plans[i], depth, id)
           later == flattenChildren(plans, i + 1, depth, id)
       IN  IF childNodes.threw \/ later.threw THEN Threw
           ELSE Flat(childNodes.nodes \o later.nodes)

(***************************************************************************)
(* Array.prototype.sort with a comparator (stable) and slice(0, n)         *)
(***************************************************************************)
\* The comparators of the code are differences of two numbers, so an array is
\* sorted by a numeric key of each element: keyed[i] = <<key, element>>, and
\* compare(a, b) < 0 exactly when a's key is less than b's.
\* x placed before the first element it must precede
InsertSorted(r, x) ==
  LET later == {i \in 1..Len(r) : x[1] < r[i][1]}
      k == IF later = {} THEN Len(r) + 1 ELSE CHOOSE i \in later : \A j \in later : i <= j
  IN  SubSeq(r, 1, k - 1) \o <<x>> \o SubSeq(r, k, Len(r))

\* the elements in ascending key order, equal keys in their original order
StableSort(keyed) ==
  LET F[i \in 0..Len(keyed)] == IF i = 0 THEN <<>> ELSE InsertSorted(F[i - 1], keyed[i])
  IN  [i \in 1..Len(keyed) |-> F[Len(keyed)][i][2]]

Slice(s, n) == SubSeq(s, 1, IF Len(s) < n THEN Len(s) ELSE n)

(***************************************************************************)
(* calculateCostContributions                                              *)
(***************************************************************************)
\* faulty variant: the nodes are visited in ascending order of total cost
CostKeyAscending(node) == node.totalCost

\* the comparator (a, b) => b.totalCost - a.totalCost: descending total cost
CostKey(node) == 0 - node.totalCost
sortByCost(nodes) == StableSort([i \in 1..Len(nodes) |-> <<CostKey(nodes[i]), nodes[i]>>])

\* faulty variant: only a root cost of exactly zero returns early
costEntriesZeroGuard(nodes, rootCost) ==
  IF rootCost = 0 THEN <<>>
  ELSE LET sortedNodes == sortByCost(nodes)
           percentage(i) == Frac(sortedNodes[i].totalCost * 100, rootCost)
       IN  [i \in 1..Len(sortedNodes) |->
              [nodeId |-> sortedNodes[i].id,
               absoluteCost |-> sortedNodes[i].totalCost,
               percentage |-> percentage(i),
               cumulativePercentage |-> percentage(i)]]

\* the records the loop passes to contributions.set, in the order it does
costEntries(nodes, rootCost) ==
  IF rootCost <= 0 THEN <<>>
  ELSE LET sortedNodes == sortByCost(nodes)
           percentage(i) == Frac(sortedNodes[i].totalCost * 100, rootCost)
           cumulative[i \in 0..Len(sortedNodes)] ==
             IF i = 0 THEN Frac(0, rootCost) ELSE FracAdd(cumulative[i - 1], percentage(i))
       IN  [i \in 1..Len(sortedNodes) |->
              [nodeId |-> sortedNodes[i].id,
               absoluteCost |-> sortedNodes[i].totalCost,
               percentage |-> FracMin(percentage(i), 100),
               cumulativePercentage |-> FracMin(cumulative[i], 100)]]

\* the Map the entries leave behind: a later set of the same key replaces
MapOf(entries) ==
  [id \in {entries[i].nodeId : i \in 1..Len(entries)} |->
     LET last == CHOOSE i \in 1..Len(entries) :
                   /\ entries[i].nodeId = id
                   /\ \A j \in 1..Len(entries) : entries[j].nodeId = id => j <= i
     IN  entries[last]]

calculateCostContributions(nodes, rootCost) == MapOf(costEntries(nodes, rootCost))

(***************************************************************************)
(* identifyBottlenecks                                                     *)
(***************************************************************************)
ROWS_THRESHOLD_LARGE == 10000
ROWS_THRESHOLD_HUGE == 100000
NESTED_LOOP_ROWS == 50000
BOTTLENECK_MIN_SCORE == 15
BOTTLENECK_LIMIT == 5
SUGGESTION_LIMIT == 10

\* faulty variant: a score on a band's lower limit falls into the band below
getSeverityFromScoreAboveLimit(score) ==
  IF score > 50 THEN "critical"
  ELSE IF score > 35 THEN "high"
  ELSE IF score > 20 THEN "medium"
  ELSE "low"

getSeverityFromScore(score) ==
  IF score >= 50 THEN "critical"
  ELSE IF score >= 35 THEN "high"
  ELSE IF score >= 20 THEN "medium"
  ELSE "low"

\* faulty variant: every cost-share bracket the share reaches adds its points
bottleneckRulesEveryBracket(node, contribution) ==
  LET p == contribution.percentage
      share == (IF FracGE(p, 50) THEN <<<<40, "cost share">>>> ELSE <<>>)
               \o (IF FracGE(p, 30) THEN <<<<25, "cost share">>>> ELSE <<>>)
               \o (IF FracGE(p, 15) THEN <<<<15, "cost share">>>> ELSE <<>>)
      seqScan == IF node.nodeType = "Seq Scan" /\ node.planRows >= ROWS_THRESHOLD_LARGE
                 THEN <<<<30, "seq scan">>>> ELSE <<>>
      nested == IF node.nodeType = "Nested Loop" /\ node.planRows >= NESTED_LOOP_ROWS
                THEN <<<<25, "nested loop">>>> ELSE <<>>
      sort == IF node.nodeType = "Sort" /\ node.planRows >= ROWS_THRESHOLD_HUGE
              THEN <<<<20, "sort">>>> ELSE <<>>
      filter == IF Truthy(node.filter) /\ ~Truthy(node.indexCond)
                   /\ node.planRows >= ROWS_THRESHOLD_LARGE
                THEN <<<<15, "filter without index">>>> ELSE <<>>
      bitmap == IF node.nodeType = "Bitmap Heap Scan" /\ node.planRows >= ROWS_THRESHOLD_HUGE
                THEN <<<<10, "bitmap heap scan">>>> ELSE <<>>
      hash == IF node.nodeType = "Hash" /\ node.planRows >= ROWS_THRESHOLD_HUGE
              THEN <<<<10, "hash">>>> ELSE <<>>
  IN  share \o seqScan \o nested \o sort \o filter \o bitmap \o hash

\* the rules that fire for a node, as <<points, reason>> in the order the code tests them
bottleneckRules(node, contribution) ==
  LET p == contribution.percentage
      share == IF FracGE(p, 50) THEN <<<<40, "cost share">>>>
               ELSE IF FracGE(p, 30) THEN <<<<25, "cost share">>>>
               ELSE IF FracGE(p, 15) THEN <<<<15, "cost share">>>>
               ELSE <<>>
      seqScan == IF node.nodeType = "Seq Scan" /\ node.planRows >= ROWS_THRESHOLD_LARGE
                 THEN <<<<30, "seq scan">>>> ELSE <<>>
      nested == IF node.nodeType = "Nested Loop" /\ node.planRows >= NESTED_LOOP_ROWS
                THEN <<<<25, "nested loop">>>> ELSE <<>>
      sort == IF node.nodeType = "Sort" /\ node.planRows >= ROWS_THRESHOLD_HUGE
              THEN <<<<20, "sort">>>> ELSE <<>>
      filter == IF Truthy(node.filter) /\ ~Truthy(node.indexCond)
                   /\ node.planRows >= ROWS_THRESHOLD_LARGE
                THEN <<<<15, "filter without index">>>> ELSE <<>>
      bitmap == IF node.nodeType = "Bitmap Heap Scan" /\ node.planRows >= ROWS_THRESHOLD_HUGE
                THEN <<<<10, "bitmap heap scan">>>> ELSE <<>>
      hash == IF node.nodeType = "Hash" /\ node.planRows >= ROWS_THRESHOLD_HUGE
              THEN <<<<10, "hash">>>> ELSE <<>>
  IN  share \o seqScan \o nested \o sort \o filter \o bitmap \o hash

SumPoints(rules) ==
  LET F[i \in 0..Len(rules)] == IF i = 0 THEN 0 ELSE F[i - 1] + rules[i][1]
  IN  F[Len(rules)]

\* faulty variant: a node without a contribution is scored with a share of 0
\* instead of being skipped
bottleneckCandidatesWithoutGuard(nodes, contributions) ==
  LET F[i \in 0..Len(nodes)] ==
        IF i = 0 THEN <<>>
        ELSE LET contribution == IF nodes[i].id \in DOMAIN contributions
                                 THEN contributions[nodes[i].id]
                                 ELSE [percentage |-> Frac(0, 1)]
                 rules == bottleneckRules(nodes[i], contribution)
                 score == SumPoints(rules)
             IN  IF score >= BOTTLENECK_MIN_SCORE
                 THEN Append(F[i - 1],
                             [node |-> nodes[i],
                              contribution |-> contribution,
                              severity |-> getSeverityFromScore(score),
                              reason |-> [k \in 1..Len(rules) |-> rules[k][2]],
                              score |-> score])
                 ELSE F[i - 1]
  IN  F[Len(nodes)]

\* the bottlenecks array before it is sorted and cut
bottleneckCandidates(nodes, contributions) ==
  LET F[i \in 0..Len(nodes)] ==
        IF i = 0 THEN <<>>
        ELSE IF nodes[i].id \notin DOMAIN contributions THEN F[i - 1]
        ELSE LET contribution == contributions[nodes[i].id]
                 rules == bottleneckRules(nodes[i], contribution)
                 score == SumPoints(rules)
             IN  IF score >= BOTTLENECK_MIN_SCORE
                 THEN Append(F[i - 1],
                             [node |-> nodes[i],
                              contribution |-> contribution,
                              severity |-> getSeverityFromScore(score),
                              reason |-> [k \in 1..Len(rules) |-> rules[k][2]],
                              score |-> score])
                 ELSE F[i - 1]
  IN  F[Len(nodes)]

\* faulty variant: the candidates are sorted by ascending score
ScoreKeyAscending(b) == b.score

\* the comparator (a, b) => b.score - a.score: descending score
ScoreKey(b) == 0 - b.score

sortBottlenecks(bottlenecks) ==
  StableSort([i \in 1..Len(bottlenecks) |-> <<ScoreKey(bottlenecks[i]), bottlenecks[i]>>])

\* faulty variant: the list is cut to its limit before it is sorted
identifyBottlenecksCutFirst(nodes, contributions) ==
  sortBottlenecks(Slice(bottleneckCandidates(nodes, contributions), BOTTLENECK_LIMIT))

identifyBottlenecks(nodes, contributions) ==
  Slice(sortBottlenecks(bottleneckCandidates(nodes, contributions)), BOTTLENECK_LIMIT)

(***************************************************************************)
(* Pattern matching on strings: extractColumnFromFilter, extractSortColumn *)
(***************************************************************************)
Char(s, i) == IF i >= 1 /\ i <= Len(s) THEN SubSeq(s, i, i) ELSE ""

UpperLetters == "ABCDEFGHIJKLMNOPQRSTUVWXYZ"
LowerLetters == "abcdefghijklmnopqrstuvwxyz"
Digits == "0123456789"

WordChars ==
  {SubSeq(UpperLetters, i, i) : i \in 1..26} \cup {SubSeq(LowerLetters, i, i) : i \in 1..26}
    \cup {SubSeq(Digits, i, i) : i \in 1..10} \cup {"_"}

\* \w
IsWord(c) == c \in WordChars
\* the vertical tab U+000B: the one character between the quotes
VerticalTab == ""
\* the no-break space U+00A0, the ogham space mark U+1680 and the byte order
\* mark U+FEFF: in each string the one character between the quotes
NoBreakSpace == " "
OghamSpaceMark == " "
ByteOrderMark == "﻿"
\* \s: space, tab, line feed, vertical tab, form feed, carriage return, U+00A0,
\* U+1680 and U+FEFF.  The other characters of \s (U+2000 to U+200A, U+2028,
\* U+2029, U+202F, U+205F, U+3000) cannot occur in a string of a module.
IsSpace(c) ==
  c \in {" ", "\t", "\n", "\r", "\f", VerticalTab, NoBreakSpace, OghamSpaceMark, ByteOrderMark}

LowerChar(c) ==
  IF \E i \in 1..26 : c = Char(UpperLetters, i)
  THEN Char(LowerLetters, CHOOSE i \in 1..26 : c = Char(UpperLetters, i))
  ELSE c

\* String.prototype.toLowerCase
ToLower(s) ==
  LET F[i \in 0..Len(s)] == IF i = 0 THEN "" ELSE F[i - 1] \o LowerChar(Char(s, i))
  IN  F[Len(s)]

\* the last index of the run of word characters that starts at i
RECURSIVE WordEnd(_, _)
WordEnd(s, i) == IF IsWord(Char(s, i + 1)) THEN WordEnd(s, i + 1) ELSE i

\* the first index from i on that holds no white space (Len(s) + 1 at the end)
RECURSIVE SkipSpace(_, _)
SkipSpace(s, i) == IF IsSpace(Char(s, i)) THEN SkipSpace(s, i + 1) ELSE i

\* /(\w+)\s*[ops]/ at position i, after a "(" when paren: the capture's <<first, last>>
CompareAt(s, i, paren, ops) ==
  LET w == IF paren THEN i + 1 ELSE i
  IN  IF (paren => Char(s, i) = "(") /\ IsWord(Char(s, w))
         /\ Char(s, SkipSpace(s, WordEnd(s, w) + 1)) \in ops
      THEN <<w, WordEnd(s, w)>>
      ELSE <<>>

\* /(\w+)\s+kw\s+/i, or /(\w+)\s+kw\s*\(/i when call, at position i
KeywordAt(s, i, kw, call) ==
  IF ~IsWord(Char(s, i)) THEN <<>>
  ELSE LET e == WordEnd(s, i)
           k == SkipSpace(s, e + 1)
           after == k + Len(kw)
       IN  IF /\ k > e + 1
              /\ after - 1 <= Len(s)
              /\ ToLower(SubSeq(s, k, after - 1)) = kw
              /\ IF call THEN Char(s, SkipSpace(s, after)) = "("
                         ELSE IsSpace(Char(s, after))
           THEN <<i, e>>
           ELSE <<>>

\* the capture of the leftmost match of pattern n of extractColumnFromFilter
PatternAt(s, i, n) ==
  CASE n = 1 -> CompareAt(s, i, TRUE, {"="})
    [] n = 2 -> CompareAt(s, i, FALSE, {"="})
    [] n = 3 -> CompareAt(s, i, TRUE, {"<", ">"})
    [] n = 4 -> CompareAt(s, i, FALSE, {"<", ">"})
    [] n = 5 -> KeywordAt(s, i, "is", FALSE)
    [] n = 6 -> KeywordAt(s, i, "in", TRUE)
    [] n = 7 -> KeywordAt(s, i, "like", FALSE)

RECURSIVE MatchFrom(_, _, _)
RECURSIVE matchOrLater(_, _, _, _)

\* the leftmost match of pattern n at or after position i
MatchFrom(s, i, n) ==
  IF i > Len(s) THEN <<>> ELSE matchOrLater(s, i, n, PatternAt(s, i, n))

\* the match m found at position i, or else the leftmost one after i
matchOrLater(s, i, n, m) == IF m # <<>> THEN m ELSE MatchFrom(s, i + 1, n)

\* filter.match(pattern n): the capture's <<first, last>>, <<>> without a match
PatternMatch(s, n) == MatchFrom(s, 1, n)

RECURSIVE firstPattern(_, _)
RECURSIVE captureOrNext(_, _, _)

\* the loop over the patterns, from pattern n on
firstPattern(filter, n) ==
  IF n > 7 THEN Null ELSE captureOrNext(filter, n, PatternMatch(filter, n))

\* if (match && match[1]) return match[1].toLowerCase(), else the next pattern
captureOrNext(filter, n, match) ==
  IF match # <<>> THEN Str(ToLower(SubSeq(filter, match[1], match[2])))
  ELSE firstPattern(filter, n + 1)

\* a string, or Null when no pattern matches; the caller passes a string
extractColumnFromFilter(filter) == firstPattern(filter, 1)

\* /^(\w+)/
extractSortColumn(sortKey) ==
  IF IsWord(Char(sortKey, 1))
  THEN Str(ToLower(SubSeq(sortKey, 1, WordEnd(sortKey, 1))))
  ELSE Null

(***************************************************************************)
(* generateOptimizationSuggestions                                         *)
(***************************************************************************)
getPriorityFromPercentage(percentage) ==
  IF FracGE(percentage, 40) THEN "critical"
  ELSE IF FracGE(percentage, 25) THEN "high"
  ELSE IF FracGE(percentage, 10) THEN "medium"
  ELSE "low"

\* faulty variant: the lookup stops at the children and never descends further
findRelationNameAmongChildren(nodes, targetNode) ==
  LET carrying == {i \in 1..Len(nodes) :
                     /\ nodes[i].parentId.t = "string" /\ nodes[i].parentId.v = targetNode.id
                     /\ Truthy(nodes[i].relationName)}
      parents == {i \in 1..Len(nodes) :
                    targetNode.parentId.t = "string" /\ nodes[i].id = targetNode.parentId.v}
  IN  IF carrying # {} THEN nodes[CHOOSE i \in carrying : \A j \in carrying : i <= j].relationName
      ELSE IF parents # {} /\ Truthy(nodes[CHOOSE i \in parents : \A j \in parents : i <= j].relationName)
      THEN nodes[CHOOSE i \in parents : \A j \in parents : i <= j].relationName
      ELSE Null

RECURSIVE findRelationName(_, _)
RECURSIVE findInChildren(_, _, _)

\* a relation name (a string value), or Null
findRelationName(nodes, targetNode) ==
  LET childNodes == SelectSeq(nodes, LAMBDA n :
                      n.parentId.t = "string" /\ n.parentId.v = targetNode.id)
      fromChildren == findInChildren(nodes, childNodes, 1)
      parents == {i \in 1..Len(nodes) :
                    targetNode.parentId.t = "string" /\ nodes[i].id = targetNode.parentId.v}
  IN  IF fromChildren.t # "null" THEN fromChildren
      ELSE IF Truthy(targetNode.parentId) /\ parents # {}
      THEN LET parent == nodes[CHOOSE i \in parents : \A j \in parents : i <= j]
           IN  IF Truthy(parent.relationName) THEN parent.relationName ELSE Null
      ELSE Null

\* the loop over childNodes, from child i on
findInChildren(nodes, childNodes, i) ==
  IF i > Len(childNodes) THEN Null
  ELSE IF Truthy(childNodes[i].relationName) THEN childNodes[i].relationName
  ELSE LET childRelation == findRelationName(nodes, childNodes[i])
       IN  IF Truthy(childRelation) THEN childRelation
           ELSE findInChildren(nodes, childNodes, i + 1)

Join(strs, sep) ==
  LET F[i \in 0..Len(strs)] ==
        IF i = 0 THEN "" ELSE IF i = 1 THEN strs[1] ELSE F[i - 1] \o sep \o strs[i]
  IN  F[Len(strs)]

Gen(items) == [threw |-> FALSE, items |-> items]
GenThrew == [threw |-> TRUE, items |-> <<>>]

\* the concatenation of the sequences of seqs
Flatten(seqs) ==
  LET F[i \in 0..Len(seqs)] == IF i = 0 THEN <<>> ELSE F[i - 1] \o seqs[i]
  IN  F[Len(seqs)]

\* the suggestions pushed by the steps gens, one after the other; a step that
\* throws ends the call
Pushed(gens) ==
  IF \E k \in 1..Len(gens) : gens[k].threw THEN GenThrew
  ELSE Gen(Flatten([k \in 1..Len(gens) |-> gens[k].items]))

\* s.match(...) is a TypeError unless s is a string
HasMatch(x) == x.t = "string"

\* the suggestion of rule 1 for a node whose filter gave filterColumn
indexSuggestionOf(node, percentage, filterColumn) ==
  [id |-> "idx-" \o node.id,
   nodeId |-> node.id,
   priority |-> getPriorityFromPercentage(percentage),
   category |-> "index",
   sql |-> IF Truthy(filterColumn)
           THEN "CREATE INDEX idx_" \o node.relationName.v \o "_" \o filterColumn.v
                \o "\nON " \o node.relationName.v \o " (" \o filterColumn.v \o ");"
           ELSE "-- (filter needs analysis)\n-- CREATE INDEX idx_" \o node.relationName.v
                \o "_<column>\n-- ON " \o node.relationName.v \o " (<column>);"]

\* faulty variant: the index rule needs more rows than the threshold
indexSuggestionAboveThreshold(node, percentage) ==
  IF node.nodeType = "Seq Scan" /\ Truthy(node.filter)
     /\ node.planRows > ROWS_THRESHOLD_LARGE /\ Truthy(node.relationName)
  THEN IF ~HasMatch(node.filter) THEN GenThrew
       ELSE Gen(<<indexSuggestionOf(node, percentage, extractColumnFromFilter(node.filter.v))>>)
  ELSE Gen(<<>>)

\* faulty variant: the index rule pushes nothing when no column is extracted
indexSuggestionOnlyWithColumn(node, percentage) ==
  IF node.nodeType = "Seq Scan" /\ Truthy(node.filter)
     /\ node.planRows >= ROWS_THRESHOLD_LARGE /\ Truthy(node.relationName)
  THEN IF ~HasMatch(node.filter) THEN GenThrew
       ELSE IF extractColumnFromFilter(node.filter.v) = Null THEN Gen(<<>>)
       ELSE Gen(<<indexSuggestionOf(node, percentage, extractColumnFromFilter(node.filter.v))>>)
  ELSE Gen(<<>>)

\* rule 1: Seq Scan with a filter on many rows
indexSuggestion(node, percentage) ==
  IF node.nodeType = "Seq Scan" /\ Truthy(node.filter)
     /\ node.planRows >= ROWS_THRESHOLD_LARGE /\ Truthy(node.relationName)
  THEN IF ~HasMatch(node.filter) THEN GenThrew
       ELSE Gen(<<indexSuggestionOf(node, percentage, extractColumnFromFilter(node.filter.v))>>)
  ELSE Gen(<<>>)

\* node.sortKey.length > 0
HasLength(x) == x.t \in {"array", "string"} /\ Len(x.v) > 0

\* node.sortKey.map(extractSortColumn).filter(Boolean), for an array of strings
sortColumnsOf(sortKey) ==
  LET kept == SelectSeq([i \in 1..Len(sortKey) |-> extractSortColumn(sortKey[i].v)], Truthy)
  IN  [i \in 1..Len(kept) |-> kept[i].v]

\* what rule 2 pushes for a node with the sort columns and the table name found
sortSuggestionOf(node, percentage, sortColumns, tableName) ==
  IF Truthy(tableName) /\ Len(sortColumns) > 0
  THEN Gen(<<[id |-> "sort-idx-" \o node.id,
              nodeId |-> node.id,
              priority |-> getPriorityFromPercentage(percentage),
              category |-> "sort",
              sql |-> "CREATE INDEX idx_" \o tableName.v \o "_"
                      \o Join(sortColumns, "_") \o "\nON " \o tableName.v
                      \o " (" \o Join(sortColumns, ", ") \o ");"]>>)
  ELSE Gen(<<>>)

\* rule 2: Sort of many rows
sortSuggestion(nodes, node, percentage) ==
  IF node.nodeType = "Sort" /\ Truthy(node.sortKey) /\ HasLength(node.sortKey)
     /\ node.planRows >= ROWS_THRESHOLD_HUGE
  THEN IF node.sortKey.t # "array" THEN GenThrew
       ELSE IF \E i \in 1..Len(node.sortKey.v) : ~HasMatch(node.sortKey.v[i]) THEN GenThrew
       ELSE sortSuggestionOf(node, percentage, sortColumnsOf(node.sortKey.v),
                             findRelationName(nodes, node))
  ELSE Gen(<<>>)

\* faulty variant: the join rule skips a node with a share below 10
joinSuggestionAboveShare(node, percentage) ==
  IF node.nodeType = "Nested Loop" /\ node.planRows >= NESTED_LOOP_ROWS
     /\ FracGE(percentage, 10)
  THEN Gen(<<[id |-> "join-" \o node.id,
              nodeId |-> node.id,
              priority |-> getPriorityFromPercentage(percentage),
              category |-> "join",
              sql |-> "-- (force a hash join to compare)\nSET enable_nestloop = off;\n"
                      \o "-- (compare the costs)\n-- SET enable_nestloop = on;"]>>)
  ELSE Gen(<<>>)

\* rule 3: Nested Loop over many rows
joinSuggestion(node, percentage) ==
  IF node.nodeType = "Nested Loop" /\ node.planRows >= NESTED_LOOP_ROWS
  THEN Gen(<<[id |-> "join-" \o node.id,
              nodeId |-> node.id,
              priority |-> getPriorityFromPercentage(percentage),
              category |-> "join",
              sql |-> "-- (force a hash join to compare)\nSET enable_nestloop = off;\n"
                      \o "-- (compare the costs)\n-- SET enable_nestloop = on;"]>>)
  ELSE Gen(<<>>)

\* what rule 4 pushes for a node with the filter column and the table name found
filterSuggestionOf(node, percentage, filterColumn, tableName) ==
  IF Truthy(tableName) /\ Truthy(filterColumn)
  THEN Gen(<<[id |-> "filter-idx-" \o node.id,
              nodeId |-> node.id,
              priority |-> IF FracGE(percentage, 20) THEN "high" ELSE "medium",
              category |-> "filter",
              sql |-> "CREATE INDEX idx_" \o tableName.v \o "_" \o filterColumn.v
                      \o "\nON " \o tableName.v \o " (" \o filterColumn.v \o ");"]>>)
  ELSE Gen(<<>>)

\* rule 4: a filter without an index condition on a node that is no Seq Scan
filterSuggestion(nodes, node, percentage) ==
  IF Truthy(node.filter) /\ ~Truthy(node.indexCond) /\ node.nodeType # "Seq Scan"
     /\ node.planRows >= ROWS_THRESHOLD_LARGE
  THEN IF ~HasMatch(node.filter) THEN GenThrew
       ELSE filterSuggestionOf(node, percentage, extractColumnFromFilter(node.filter.v),
                               IF Truthy(node.relationName) THEN node.relationName
                               ELSE findRelationName(nodes, node))
  ELSE Gen(<<>>)

\* rule 5: CTE Scan returning many rows
cteSuggestion(node) ==
  IF node.nodeType = "CTE Scan" /\ node.planRows >= ROWS_THRESHOLD_LARGE /\ Truthy(node.cteName)
  THEN Gen(<<[id |-> "cte-" \o node.id,
              nodeId |-> node.id,
              priority |-> "medium",
              category |-> "general",
              sql |-> "-- (inline the CTE)\nWITH " \o node.cteName.v
                      \o " AS NOT MATERIALIZED (\n  -- (the CTE's query)\n)"]>>)
  ELSE Gen(<<>>)

\* contributions.get(node.id)?.percentage ?? 0
percentageOf(node, contributions) ==
  IF node.id \in DOMAIN contributions THEN contributions[node.id].percentage ELSE Frac(0, 1)

\* one iteration of the loop over nodes: the suggestions pushed for a node
suggestionsFor(nodes, node, contributions) ==
  Pushed(<<indexSuggestion(node, percentageOf(node, contributions)),
           sortSuggestion(nodes, node, percentageOf(node, contributions)),
           joinSuggestion(node, percentageOf(node, contributions)),
           filterSuggestion(nodes, node, percentageOf(node, contributions)),
           cteSuggestion(node)>>)

\* the suggestions array before it is sorted and cut
generatedSuggestions(nodes, contributions) ==
  Pushed([i \in 1..Len(nodes) |-> suggestionsFor(nodes, nodes[i], contributions)])

priorityOrder(p) ==
  CASE p = "critical" -> 0 [] p = "high" -> 1 [] p = "medium" -> 2 [] p = "low" -> 3

\* the comparator (a, b) => priorityOrder[a.priority] - priorityOrder[b.priority]
PriorityKey(s) == priorityOrder(s.priority)

sortSuggestions(suggestions) ==
  StableSort([i \in 1..Len(suggestions) |-> <<PriorityKey(suggestions[i]), suggestions[i]>>])

\* faulty variant: the list is cut to its limit before it is sorted
cutAndSorted(generated) ==
  IF generated.threw THEN GenThrew
  ELSE Gen(sortSuggestions(Slice(generated.items, SUGGESTION_LIMIT)))

\* the return statement: sort(...).slice(0, 10)
sortedAndCut(generated) ==
  IF generated.threw THEN GenThrew
  ELSE Gen(Slice(sortSuggestions(generated.items), SUGGESTION_LIMIT))

generateOptimizationSuggestions(nodes, contributions) ==
  sortedAndCut(generatedSuggestions(nodes, contributions))

(***************************************************************************)
(* extractAnalyzeMetrics                                                   *)
(***************************************************************************)
\* faulty variant: a missing loop count counts as no loop at all
TimesLoopsDefaultZero(time, loops) == Coalesce(time, Num(0)).v * Coalesce(loops, Num(0)).v

\* x * (loops ?? 1) for a time x that is defined
TimesLoops(time, loops) == Coalesce(time, Num(0)).v * Coalesce(loops, Num(1)).v

calculateTotalActualTime(nodes) ==
  LET roots == {i \in 1..Len(nodes) : nodes[i].depth = 0}
  IN  IF roots = {} THEN 0
      ELSE LET rootNode == nodes[CHOOSE i \in roots : \A j \in roots : i <= j]
           IN  IF Defined(rootNode.actualTotalTime)
               THEN TimesLoops(rootNode.actualTotalTime, rootNode.actualLoops)
               ELSE 0

\* the comparator (a, b) => b.timePercentage - a.timePercentage: descending share;
\* the shares of one call have one denominator, so the numerator orders them
TimeKey(timing) == 0 - timing.timePercentage.n

\* faulty variant: without data on a node there is no metrics object, whatever the
\* execution time
extractAnalyzeMetricsIgnoringExecutionTime(nodes, executionTime, planningTime) ==
  LET hasAnalyzeData == \E i \in 1..Len(nodes) :
                          Defined(nodes[i].actualRows) \/ Defined(nodes[i].actualTotalTime)
      totalActualTime == IF executionTime > 0 THEN executionTime
                         ELSE calculateTotalActualTime(nodes)
      timed == SelectSeq(nodes, LAMBDA n : Defined(n.actualTotalTime))
      timing(node) ==
        LET actualTime == TimesLoops(node.actualTotalTime, node.actualLoops)
        IN  [nodeId |-> node.id,
             nodeType |-> node.nodeType,
             actualTime |-> actualTime,
             timePercentage |-> IF totalActualTime > 0
                                THEN Frac(actualTime * 100, totalActualTime)
                                ELSE Frac(0, 1),
             actualRows |-> Coalesce(node.actualRows, Num(0)).v,
             planRows |-> node.planRows,
             rowsAccuracy |-> IF node.planRows > 0 /\ Defined(node.actualRows)
                              THEN Frac(Coalesce(node.actualRows, Num(0)).v, node.planRows)
                              ELSE Frac(1, 1),
             loops |-> Coalesce(node.actualLoops, Num(1)).v]
  IN  IF ~hasAnalyzeData THEN Undef
      ELSE [t |-> "metrics",
            executionTime |-> executionTime,
            planningTime |-> planningTime,
            nodeTimings |-> StableSort([i \in 1..Len(timed) |->
                                          <<TimeKey(timing(timed[i])), timing(timed[i])>>]),
            hasAnalyzeData |-> hasAnalyzeData]

extractAnalyzeMetrics(nodes, executionTime, planningTime) ==
  LET hasAnalyzeData == \E i \in 1..Len(nodes) :
                          Defined(nodes[i].actualRows) \/ Defined(nodes[i].actualTotalTime)
      totalActualTime == IF executionTime > 0 THEN executionTime
                         ELSE calculateTotalActualTime(nodes)
      timed == SelectSeq(nodes, LAMBDA n : Defined(n.actualTotalTime))
      timing(node) ==
        LET actualTime == TimesLoops(node.actualTotalTime, node.actualLoops)
        IN  [nodeId |-> node.id,
             nodeType |-> node.nodeType,
             actualTime |-> actualTime,
             timePercentage |-> IF totalActualTime > 0
                                THEN Frac(actualTime * 100, totalActualTime)
                                ELSE Frac(0, 1),
             actualRows |-> Coalesce(node.actualRows, Num(0)).v,
             planRows |-> node.planRows,
             rowsAccuracy |-> IF node.planRows > 0 /\ Defined(node.actualRows)
                              THEN Frac(Coalesce(node.actualRows, Num(0)).v, node.planRows)
                              ELSE Frac(1, 1),
             loops |-> Coalesce(node.actualLoops, Num(1)).v]
  IN  IF ~hasAnalyzeData /\ executionTime = 0 THEN Undef
      ELSE [t |-> "metrics",
            executionTime |-> executionTime,
            planningTime |-> planningTime,
            nodeTimings |-> StableSort([i \in 1..Len(timed) |->
                                          <<TimeKey(timing(timed[i])), timing(timed[i])>>]),
            hasAnalyzeData |-> hasAnalyzeData]

(***************************************************************************)
(* calculateEstimateAccuracy                                               *)
(***************************************************************************)
\* faulty variant: the bounds 0.5 and 2 of the accurate band are excluded
severityOfOpenBand(accuracy) ==
  IF FracLT(Frac(1, 2), accuracy) /\ FracLT(accuracy, Frac(2, 1)) THEN "accurate"
  ELSE IF FracLE(Frac(2, 1), accuracy) /\ FracLE(accuracy, Frac(10, 1)) THEN "underestimate"
  ELSE IF FracLE(accuracy, Frac(1, 2)) /\ FracLE(Frac(1, 10), accuracy) THEN "overestimate"
  ELSE "severe"

\* the severity of accuracy = actualRows / planRows
severityOf(accuracy) ==
  IF FracLE(Frac(1, 2), accuracy) /\ FracLE(accuracy, Frac(2, 1)) THEN "accurate"
  ELSE IF FracLT(Frac(2, 1), accuracy) /\ FracLE(accuracy, Frac(10, 1)) THEN "underestimate"
  ELSE IF FracLT(accuracy, Frac(1, 2)) /\ FracLE(Frac(1, 10), accuracy) THEN "overestimate"
  ELSE "severe"

\* whether the loop makes an entry for the node
hasAccuracyEntry(node) == Defined(node.actualRows) /\ node.planRows > 0

accuracyEntries(nodes) ==
  LET measured == SelectSeq(nodes, hasAccuracyEntry)
  IN  [i \in 1..Len(measured) |->
         LET accuracy == Frac(Coalesce(measured[i].actualRows, Num(0)).v, measured[i].planRows)
         IN  [nodeId |-> measured[i].id,
              nodeType |-> measured[i].nodeType,
              estimatedRows |-> measured[i].planRows,
              actualRows |-> measured[i].actualRows,
              accuracy |-> accuracy,
              severity |-> severityOf(accuracy)]]

\* faulty variant: overestimates rank below underestimates
severityOrderApart(s) ==
  CASE s = "severe" -> 0
    [] s = "underestimate" -> 1
    [] s = "overestimate" -> 2
    [] s = "accurate" -> 3

severityOrder(s) ==
  CASE s = "severe" -> 0 [] s = "underestimate" -> 1 [] s = "overestimate" -> 1
    [] s = "accurate" -> 2

\* the comparator (a, b) => severityOrder[a.severity] - severityOrder[b.severity]
SeverityKey(a) == severityOrder(a.severity)

calculateEstimateAccuracy(nodes) ==
  LET entries == accuracyEntries(nodes)
  IN  StableSort([i \in 1..Len(entries) |-> <<SeverityKey(entries[i]), entries[i]>>])

(***************************************************************************)
(* analyzePlan                                                             *)
(***************************************************************************)
NoRoot == [threw |-> FALSE, rootPlan |-> Null, executionTime |-> 0, planningTime |-> 0]
RootFrom(holder) ==
  [threw |-> FALSE,
   rootPlan |-> Get(holder, "Plan"),
   executionTime |-> Coalesce(Get(holder, "Execution Time"), Num(0)).v,
   planningTime |-> Coalesce(Get(holder, "Planning Time"), Num(0)).v]

\* faulty variant: an object is tested for "Node Type" before it is tested for "Plan"
selectRootNodeTypeFirst(raw) ==
  IF raw.t = "array"
  THEN LET firstItem == IF Len(raw.v) > 0 THEN raw.v[1] ELSE Undef
       IN  IF Truthy(firstItem) /\ firstItem.t \in {"object", "array"}
              /\ HasKey(firstItem, "Plan")
           THEN RootFrom(firstItem)
           ELSE NoRoot
  ELSE IF raw.t # "object" THEN [NoRoot EXCEPT !.threw = TRUE]
  ELSE IF HasKey(raw, "Node Type") THEN [NoRoot EXCEPT !.rootPlan = raw]
  ELSE IF HasKey(raw, "Plan") THEN RootFrom(raw)
  ELSE NoRoot

\* faulty variant: the first element of the array that has a "Plan" field is taken
selectRootAnyElement(raw) ==
  IF raw.t = "array"
  THEN LET holders == {i \in 1..Len(raw.v) : HasKey(raw.v[i], "Plan")}
       IN  IF holders # {}
           THEN RootFrom(raw.v[CHOOSE i \in holders : \A j \in holders : i <= j])
           ELSE NoRoot
  ELSE IF raw.t # "object" THEN [NoRoot EXCEPT !.threw = TRUE]
  ELSE IF HasKey(raw, "Plan") THEN RootFrom(raw)
  ELSE IF HasKey(raw, "Node Type") THEN [NoRoot EXCEPT !.rootPlan = raw]
  ELSE NoRoot

\* the locals rootPlan, executionTime and planningTime after the if-chain;
\* the in operator is a TypeError on a value that is no object
selectRoot(raw) ==
  IF raw.t = "array"
  THEN LET firstItem == IF Len(raw.v) > 0 THEN raw.v[1] ELSE Undef
       IN  IF Truthy(firstItem) /\ firstItem.t \in {"object", "array"}
              /\ HasKey(firstItem, "Plan")
           THEN RootFrom(firstItem)
           ELSE NoRoot
  ELSE IF raw.t # "object" THEN [NoRoot EXCEPT !.threw = TRUE]
  ELSE IF HasKey(raw, "Plan") THEN RootFrom(raw)
  ELSE IF HasKey(raw, "Node Type") THEN [NoRoot EXCEPT !.rootPlan = raw]
  ELSE NoRoot

ResultThrew == [kind |-> "threw"]
ResultNull == [kind |-> "null"]

\* the returned PlanAnalysisResult
analysisOf(sel, flattenedNodes, rootCost, costContributions, suggestions) ==
  IF suggestions.threw THEN ResultThrew
  ELSE [kind |-> "result",
        flattenedNodes |-> flattenedNodes,
        costContributions |-> costContributions,
        bottlenecks |-> identifyBottlenecks(flattenedNodes, costContributions),
        suggestions |-> suggestions.items,
        totalCost |-> rootCost,
        rootNodeType |-> Or(Get(sel.rootPlan, "Node Type"), Str("Unknown")).v,
        analyzeMetrics |-> extractAnalyzeMetrics(flattenedNodes,
                             sel.executionTime, sel.planningTime)]

\* the analysis from the contribution map on
analyzeCosted(sel, flattenedNodes, rootCost, costContributions) ==
  analysisOf(sel, flattenedNodes, rootCost, costContributions,
             generateOptimizationSuggestions(flattenedNodes, costContributions))

\* the analysis of the flattened root plan
analyzeFlat(sel, flat, rootCost) ==
  IF flat.threw THEN ResultThrew
  ELSE analyzeCosted(sel, flat.nodes, rootCost,
                     calculateCostContributions(flat.nodes, rootCost))

\* the body of analyzePlan after the root selection sel
analyzeRoot(sel) ==
  IF sel.threw THEN ResultThrew
  ELSE IF ~Truthy(sel.rootPlan) THEN ResultNull
  ELSE analyzeFlat(sel, flattenPlanTree(sel.rootPlan, 0, Undef),
                   Coalesce(Get(sel.rootPlan, "Total Cost"), Num(0)).v)

analyzePlan(raw) == analyzeRoot(selectRoot(raw))

(***************************************************************************)
(* The caller: a plan is assembled node by node, handed to analyzePlan in  *)
(* one of the shapes EXPLAIN output comes in, and the flattened nodes of   *)
(* the result are handed to calculateEstimateAccuracy (AnalyzeMetricsCard) *)
(***************************************************************************)
RECURSIVE NodeCount(_)
NodeCount(node) ==
  LET kids == childPlans(node)
      F[i \in 0..Len(kids)] == IF i = 0 THEN 0 ELSE F[i - 1] + NodeCount(kids[i])
  IN  1 + F[Len(kids)]

\* the positions of the plan nodes of a tree, as child-index paths from the root
RECURSIVE Paths(_)
Paths(node) ==
  LET kids == childPlans(node)
  IN  {<<>>} \cup UNION {{<<i>> \o q : q \in Paths(kids[i])} :
                          i \in {j \in 1..Len(kids) : kids[j].t = "object"}}

RootOnly == {<<>>}

RECURSIVE NodeAt(_, _)
NodeAt(node, path) ==
  IF path = <<>> THEN node ELSE NodeAt(childPlans(node)[Head(path)], Tail(path))

\* the tree with child appended to the Plans of the node at path
RECURSIVE AddAt(_, _, _)
AddAt(node, path, child) ==
  LET kids == childPlans(node)
  IN  IF path = <<>>
      THEN [node EXCEPT !.v["Plans"] = Arr(Append(kids, child))]
      ELSE [node EXCEPT !.v["Plans"] =
              Arr([kids EXCEPT ![Head(path)] = AddAt(kids[Head(path)], Tail(path), child)])]

NoResult == [kind |-> "none"]
\* let rootPlan = null; let executionTime = 0; let planningTime = 0
NoLocals == [threw |-> FALSE, rootPlan |-> Null, executionTime |-> 0, planningTime |-> 0]

InitWith(roots) ==
  /\ tree \in roots
  /\ planRaw = Undef
  /\ result = NoResult
  /\ locals = NoLocals
  /\ accuracies = <<>>
  /\ heap = <<>>
  /\ pc = "input"

\* the caller adds a child plan from palette to the node at one of the paths
AddChild(palette, max, paths) ==
  /\ pc = "input"
  /\ NodeCount(tree) < max
  /\ \E path \in paths, child \in palette : tree' = AddAt(tree, path, child)
  /\ UNCHANGED <<planRaw, result, locals, accuracies, heap, pc>>

\* one call of analyzePlan on one of the inputs built around the tree
Analyze(inputs) ==
  /\ pc = "input"
  /\ \E raw \in inputs :
       /\ planRaw' = raw
       /\ locals' = selectRoot(raw)
       /\ result' = analyzePlan(raw)
  /\ pc' = "analyzed"
  /\ UNCHANGED <<tree, accuracies, heap>>

\* AnalyzeMetricsCard, rendered with the analyzeMetrics and the flattenedNodes
\* of a result.  const { executionTime, planningTime, nodeTimings } =
\* analyzeMetrics throws a TypeError when analyzeMetrics is undefined, before
\* calculateEstimateAccuracy(flattenedNodes) is reached
EstimateAccuracy ==
  /\ pc = "analyzed"
  /\ result.kind = "result"
  /\ IF result.analyzeMetrics.t = "undefined"
     THEN /\ pc' = "threw"
          /\ UNCHANGED accuracies
     ELSE /\ accuracies' = calculateEstimateAccuracy(result.flattenedNodes)
          /\ pc' = "rendered"
  /\ UNCHANGED <<tree, planRaw, result, locals, heap>>

(***************************************************************************)
(* Inputs: the shapes of EXPLAIN (FORMAT JSON) output                      *)
(***************************************************************************)
Wrapped(plan) == Obj("Plan" :> plan)
Timed(plan, exec, planning) ==
  Obj(("Plan" :> plan) @@ ("Execution Time" :> Num(exec)) @@ ("Planning Time" :> Num(planning)))

ArrayOrBare(plan) == {plan, Arr(<<Wrapped(plan)>>)}
ArrayOnly(plan) == {Arr(<<Wrapped(plan)>>)}

(***************************************************************************)
(* Spec: plans whose node types, relation names and aliases vary, of every *)
(* shape up to MaxNodes nodes                                              *)
(***************************************************************************)
MaxNodes == 4

ScanUsers ==
  Obj(("Node Type" :> Str("Seq Scan")) @@ ("Relation Name" :> Str("users"))
      @@ ("Total Cost" :> Num(1000)) @@ ("Plan Rows" :> Num(50000))
      @@ ("Filter" :> Str("(status = 1)")))
ScanUsersCheap ==
  Obj(("Node Type" :> Str("Seq Scan")) @@ ("Relation Name" :> Str("users"))
      @@ ("Total Cost" :> Num(40)) @@ ("Plan Rows" :> Num(10)))
ScanAlias ==
  Obj(("Node Type" :> Str("Seq Scan")) @@ ("Alias" :> Str("u")) @@ ("Total Cost" :> Num(300)))
Untyped == Obj(<<>>)

FlattenPalette == {ScanUsers, ScanUsersCheap, ScanAlias, Untyped}

Init == InitWith(FlattenPalette)
AddPlan == AddChild(FlattenPalette, MaxNodes, Paths(tree))
AnalyzePlan == Analyze(ArrayOrBare(tree))
Next == AddPlan \/ AnalyzePlan
Spec == Init /\ [][Next]_vars

Analyzed == pc \in {"analyzed", "rendered"} /\ result.kind = "result"

\* p comes before q in depth-first pre-order
LexLess(p, q) ==
  \/ Len(p) < Len(q) /\ SubSeq(q, 1, Len(p)) = p
  \/ \E i \in 1..Len(p) :
       /\ i <= Len(q)
       /\ SubSeq(p, 1, i - 1) = SubSeq(q, 1, i - 1)
       /\ p[i] < q[i]
\* the position of path p in the pre-order of the paths ps
PreRank(ps, p) == 1 + Cardinality({q \in ps : LexLess(q, p)})
ParentPath(p) == SubSeq(p, 1, Len(p) - 1)

\* C1: flattenPlanTree returns one FlattenedNode per plan node, in depth-first
\* pre-order, the root at depth 0 and each child one deeper than its parent, and
\* every parentId is the id of a node earlier in the list (that of the parent).
C1_OneNodePerPlanNodeInPreOrder ==
  Analyzed =>
    LET root == locals.rootPlan
        ps == Paths(root)
        nodes == result.flattenedNodes
    IN  /\ Len(nodes) = NodeCount(root)
        /\ Len(nodes) = Cardinality(ps)
        /\ \A p \in ps :
             LET k == PreRank(ps, p)
             IN  /\ nodes[k].raw = NodeAt(root, p)
                 /\ nodes[k].depth = Len(p)
                 /\ IF p = <<>> THEN ~Defined(nodes[k].parentId)
                    ELSE /\ nodes[k].parentId.t = "string"
                         /\ nodes[k].parentId.v = nodes[PreRank(ps, ParentPath(p))].id
        /\ \A k \in 1..Len(nodes) :
             Defined(nodes[k].parentId) =>
               \E j \in 1..(k - 1) : nodes[j].id = nodes[k].parentId.v

\* a grandchild is listed before its parent's next sibling
C1_Witness ==
  /\ Analyzed
  /\ Len(result.flattenedNodes) = 4
  /\ \E k \in 1..3 : /\ result.flattenedNodes[k].depth = 2
                     /\ result.flattenedNodes[k + 1].depth = 1

\* the id the four attributes of a flattened node determine
IdFromAttributes(n) ==
  LET base == n.nodeType \o "-" \o (IF Truthy(n.relationName) THEN n.relationName.v ELSE "")
              \o "-" \o ToString(n.depth)
  IN  IF Defined(n.parentId) THEN n.parentId.v \o "/" \o base ELSE base

\* C2: the id of a flattened node is a function of its node type, its relation
\* name (the alias when there is none), its depth and its parent's id alone, so
\* two nodes that agree on these four have the same id whatever else differs.
C2_IdDeterminedByTypeRelationDepthParent ==
  Analyzed =>
    LET nodes == result.flattenedNodes
    IN  /\ \A k \in 1..Len(nodes) :
             /\ nodes[k].id = IdFromAttributes(nodes[k])
             /\ nodes[k].relationName =
                  Or(Get(nodes[k].raw, "Relation Name"), Get(nodes[k].raw, "Alias"))
        /\ \A i, j \in 1..Len(nodes) :
             (/\ nodes[i].nodeType = nodes[j].nodeType
              /\ nodes[i].relationName = nodes[j].relationName
              /\ nodes[i].depth = nodes[j].depth
              /\ nodes[i].parentId = nodes[j].parentId) => nodes[i].id = nodes[j].id

\* two different plan nodes agree on the four attributes
C2_Witness ==
  /\ Analyzed
  /\ \E i, j \in 1..Len(result.flattenedNodes) :
       /\ result.flattenedNodes[i].raw # result.flattenedNodes[j].raw
       /\ result.flattenedNodes[i].id = result.flattenedNodes[j].id
       /\ result.flattenedNodes[i].relationName.t = "string"

(***************************************************************************)
(* SpecCost: plans whose total costs vary: a root cost that is positive,   *)
(* zero, negative or absent, node costs above and below the root's         *)
(***************************************************************************)
MaxCostNodes == 3

Costed(type, cost) == Obj(("Node Type" :> Str(type)) @@ ("Total Cost" :> Num(cost)))

CostRoots ==
  {Costed("Result", 100), Costed("Result", 0), Costed("Result", -50), Costed("Result", 30),
   Obj("Node Type" :> Str("Result"))}
CostPalette ==
  {Costed("Hash", 50), Costed("Hash", 150), Costed("Seq Scan", -30), Costed("Seq Scan", 0),
   Costed("Sort", 30)}

InitCost == InitWith(CostRoots)
AddCosted == AddChild(CostPalette, MaxCostNodes, Paths(tree))
AnalyzeCosted == Analyze(ArrayOrBare(tree))
NextCost == AddCosted \/ AnalyzeCosted
SpecCost == InitCost /\ [][NextCost]_vars

\* the flattened nodes in descending-cost order, ties in traversal order
ByDescendingCost(nodes) == sortByCost(nodes)

\* C3 (as claimed): with a positive root cost, every contribution has
\* 0 <= percentage <= 100 whatever the node costs are, and cumulativePercentage
\* never decreases along the nodes in descending-cost order.
C3_PercentageInRangeAndCumulativeMonotone ==
  (Analyzed /\ result.totalCost > 0) =>
    LET cs == result.costContributions
        sorted == ByDescendingCost(result.flattenedNodes)
    IN  /\ \A id \in DOMAIN cs :
             /\ FracLE(Frac(0, 1), cs[id].percentage)
             /\ FracLE(cs[id].percentage, Frac(100, 1))
        /\ \A i, j \in 1..Len(sorted) :
             i < j => FracLE(cs[sorted[i].id].cumulativePercentage,
                             cs[sorted[j].id].cumulativePercentage)

\* C4: when the root total cost is zero, negative or absent, the contribution
\* map is empty whatever the nodes are (no quotient by the root cost is formed).
C4_NoContributionsWithoutPositiveRootCost ==
  Analyzed =>
    /\ result.totalCost = Coalesce(Get(locals.rootPlan, "Total Cost"), Num(0)).v
    /\ result.totalCost <= 0 => DOMAIN result.costContributions = {}

\* a negative root cost over nodes that have positive costs
C4_Witness ==
  /\ Analyzed
  /\ result.totalCost < 0
  /\ Len(result.flattenedNodes) = 3
  /\ \E k \in 1..3 : result.flattenedNodes[k].totalCost > 0
  /\ DOMAIN result.costContributions = {}

(***************************************************************************)
(* SpecBottleneck: a root with up to MaxBnNodes - 1 children whose scores  *)
(* differ, tie, or stay below the threshold, so that more nodes qualify    *)
(* than the list keeps                                                     *)
(***************************************************************************)
MaxBnNodes == 7

Sized(type, rows, cost) ==
  Obj(("Node Type" :> Str(type)) @@ ("Plan Rows" :> Num(rows)) @@ ("Total Cost" :> Num(cost)))

FilteredScan ==
  Obj(("Node Type" :> Str("Seq Scan")) @@ ("Relation Name" :> Str("users"))
      @@ ("Total Cost" :> Num(600)) @@ ("Plan Rows" :> Num(50000))
      @@ ("Filter" :> Str("(status = 1)")))

BottleneckRoots == {Sized("Result", 1, 1000), Sized("Result", 1, 2000)}
BottleneckPalette ==
  {FilteredScan, Sized("Hash", 200000, 200), Sized("Sort", 200000, 100)}

InitBottleneck == InitWith(BottleneckRoots)
AddScored == AddChild(BottleneckPalette, MaxBnNodes, RootOnly)
AnalyzeScored == Analyze(ArrayOnly(tree))
NextBottleneck == AddScored \/ AnalyzeScored
SpecBottleneck == InitBottleneck /\ [][NextBottleneck]_vars

\* how often x occurs in the sequence s
Occurrences(s, x) == Cardinality({i \in 1..Len(s) : s[i] = x})

\* the qualifying nodes of the analysed plan, in traversal order
Qualifying == bottleneckCandidates(result.flattenedNodes, result.costContributions)

\* C5: the bottleneck list has at most 5 entries, all of them qualifying nodes
\* (score >= 15), its scores never increase, it keeps as many qualifying nodes
\* as the limit allows, and every qualifying node left out scores no more than
\* the lowest score kept.
C5_TopFiveBottlenecksByScore ==
  Analyzed =>
    LET kept == result.bottlenecks
        qualifying == Qualifying
        n == Len(qualifying)
    IN  /\ Len(kept) <= 5
        /\ Len(kept) = IF n < 5 THEN n ELSE 5
        /\ \A i \in 1..Len(kept) : kept[i].score >= 15
        /\ \A i \in 1..(Len(kept) - 1) : kept[i].score >= kept[i + 1].score
        /\ \A i \in 1..n :
             LET c == qualifying[i]
             IN  /\ Occurrences(kept, c) <= Occurrences(qualifying, c)
                 /\ Occurrences(kept, c) < Occurrences(qualifying, c) =>
                      /\ Len(kept) = 5
                      /\ c.score <= kept[5].score

\* seven qualifying nodes, the highest score among the last two in traversal order
C5_Witness ==
  /\ Analyzed
  /\ Len(result.bottlenecks) = 5
  /\ result.bottlenecks[1].score > result.bottlenecks[5].score
  /\ LET qualifying == Qualifying
     IN  /\ Len(qualifying) = 7
         /\ \E i \in 6..7 : \A j \in 1..5 : qualifying[j].score < qualifying[i].score

(***************************************************************************)
(* SpecSuggest: a root with up to MaxSgNodes - 1 children that draw one or *)
(* two suggestions each, of every priority tier                            *)
(***************************************************************************)
MaxSgNodes == 6

LoopFiltered ==
  Obj(("Node Type" :> Str("Nested Loop")) @@ ("Alias" :> Str("a"))
      @@ ("Total Cost" :> Num(450)) @@ ("Plan Rows" :> Num(60000))
      @@ ("Filter" :> Str("(x > 1)")))
CteFiltered ==
  Obj(("Node Type" :> Str("CTE Scan")) @@ ("CTE Name" :> Str("recent")) @@ ("Alias" :> Str("r"))
      @@ ("Total Cost" :> Num(50)) @@ ("Plan Rows" :> Num(20000))
      @@ ("Filter" :> Str("n < 5")))
ScanCheap ==
  Obj(("Node Type" :> Str("Seq Scan")) @@ ("Relation Name" :> Str("users"))
      @@ ("Total Cost" :> Num(20)) @@ ("Plan Rows" :> Num(50000))
      @@ ("Filter" :> Str("(status = 1)")))
ScanCostly ==
  Obj(("Node Type" :> Str("Seq Scan")) @@ ("Relation Name" :> Str("orders"))
      @@ ("Total Cost" :> Num(300)) @@ ("Plan Rows" :> Num(50000))
      @@ ("Filter" :> Str("ok")))

LoopRoot ==
  Obj(("Node Type" :> Str("Nested Loop")) @@ ("Alias" :> Str("j"))
      @@ ("Total Cost" :> Num(1000)) @@ ("Plan Rows" :> Num(60000))
      @@ ("Filter" :> Str("(id = 1)")))

SuggestRoots == {Sized("Result", 1, 1000), LoopRoot}
SuggestPalette == {LoopFiltered, CteFiltered, ScanCheap, ScanCostly}

InitSuggest == InitWith(SuggestRoots)
AddSuggested == AddChild(SuggestPalette, MaxSgNodes, RootOnly)
AnalyzeSuggested == Analyze(ArrayOnly(tree))
NextSuggest == AddSuggested \/ AnalyzeSuggested
SpecSuggest == InitSuggest /\ [][NextSuggest]_vars

\* the priority tiers, highest first
Tiers == <<"critical", "high", "medium", "low">>
\* the suggestions of s in tier p, in the order they have in s
InTier(s, p) == SelectSeq(s, LAMBDA x : x.priority = p)
TierIndex(p) == CHOOSE k \in 1..4 : Tiers[k] = p

\* every suggestion the rules pushed for the analysed plan, in the order pushed
Generated == generatedSuggestions(result.flattenedNodes, result.costContributions).items

\* C6: the suggestion list has at most 10 entries (as many of the generated
\* ones as the limit allows), in the tier order critical, high, medium, low;
\* within a tier the kept suggestions are the first generated ones of that tier
\* in generation order; and a tier of which something was dropped is followed
\* by no kept suggestion of a lower tier.
C6_TopTenSuggestionsByTier ==
  Analyzed =>
    LET kept == result.suggestions
        generated == Generated
        n == Len(generated)
    IN  /\ Len(kept) <= 10
        /\ Len(kept) = IF n < 10 THEN n ELSE 10
        /\ \A i \in 1..(Len(kept) - 1) :
             TierIndex(kept[i].priority) <= TierIndex(kept[i + 1].priority)
        /\ \A k \in 1..4 :
             LET keptTier == InTier(kept, Tiers[k])
                 generatedTier == InTier(generated, Tiers[k])
             IN  /\ Len(keptTier) <= Len(generatedTier)
                 /\ keptTier = SubSeq(generatedTier, 1, Len(keptTier))
                 /\ Len(keptTier) < Len(generatedTier) =>
                      \A l \in (k + 1)..4 : InTier(kept, Tiers[l]) = <<>>

\* more than ten suggestions of all four tiers were generated, the low one
\* third and ahead of higher ones; the cut took it and kept every medium one
C6_Witness ==
  /\ Analyzed
  /\ Len(result.suggestions) = 10
  /\ LET generated == Generated
     IN  /\ Len(generated) > 10
         /\ Cardinality({generated[i].priority : i \in 1..Len(generated)}) = 4
         /\ \E i \in 1..(Len(generated) - 1) :
              TierIndex(generated[i].priority) > TierIndex(generated[i + 1].priority)
         /\ generated[3].priority = "low"
         /\ InTier(result.suggestions, "low") = <<>>
         /\ InTier(result.suggestions, "medium") = InTier(generated, "medium")

(***************************************************************************)
(* SpecAccuracy: plans whose nodes pair an estimate with an actual row     *)
(* count on and around every boundary of the classification                *)
(***************************************************************************)
MaxAccNodes == 3

Estimated(planRows) == Obj(("Node Type" :> Str("Seq Scan")) @@ ("Plan Rows" :> Num(planRows)))
Measured(planRows, actualRows) ==
  Obj(("Node Type" :> Str("Seq Scan")) @@ ("Plan Rows" :> Num(planRows))
      @@ ("Actual Rows" :> Num(actualRows)))

AccuracyPalette ==
  {Estimated(10), Measured(0, 5), Obj("Actual Rows" :> Num(5)),
   Measured(10, 0), Measured(10, 1), Measured(10, 4), Measured(10, 5), Measured(10, 20),
   Measured(10, 21), Measured(10, 100), Measured(10, 101), Measured(100, 5000)}

InitAccuracy == InitWith(AccuracyPalette)
AddMeasured == AddChild(AccuracyPalette, MaxAccNodes, RootOnly)
AnalyzeMeasured == Analyze(ArrayOnly(tree))
NextAccuracy == AddMeasured \/ AnalyzeMeasured \/ EstimateAccuracy
SpecAccuracy == InitAccuracy /\ [][NextAccuracy]_vars

\* the plan nodes of the analysed plan that carry "Actual Rows" and a positive "Plan Rows"
MeasuredNodes ==
  SelectSeq(result.flattenedNodes, LAMBDA n :
    /\ Get(n.raw, "Actual Rows").t = "number"
    /\ Get(n.raw, "Plan Rows").t = "number"
    /\ Get(n.raw, "Plan Rows").v > 0)

\* the band of actual / estimated, estimated > 0, in whole numbers
BandOf(actual, estimated) ==
  IF 2 * actual >= estimated /\ actual <= 2 * estimated THEN "accurate"
  ELSE IF actual > 2 * estimated /\ actual <= 10 * estimated THEN "underestimate"
  ELSE IF 2 * actual < estimated /\ 10 * actual >= estimated THEN "overestimate"
  ELSE "severe"

\* C7: calculateEstimateAccuracy returns one entry for each node that has actual
\* rows and estimated rows > 0 and for no other node, and the severity of an
\* entry is the band of actual/estimated: [0.5, 2] accurate, (2, 10]
\* underestimate, [0.1, 0.5) overestimate, otherwise severe; so 5000 against
\* 100 is severe, and actual 0 is severe.
C7_EntriesAndSeverityBands ==
  pc = "rendered" =>
    /\ Len(accuracies) = Len(MeasuredNodes)
    /\ \A i \in 1..Len(MeasuredNodes) :
         LET m == MeasuredNodes[i]
             same(s) == {j \in 1..Len(s) : /\ s[j].id = m.id
                                           /\ s[j].planRows = m.planRows
                                           /\ s[j].actualRows = m.actualRows}
         IN  Cardinality(same(MeasuredNodes)) =
               Cardinality({j \in 1..Len(accuracies) :
                              /\ accuracies[j].nodeId = m.id
                              /\ accuracies[j].estimatedRows = m.planRows
                              /\ accuracies[j].actualRows = m.actualRows})
    /\ \A j \in 1..Len(accuracies) :
         LET e == accuracies[j]
         IN  /\ e.estimatedRows > 0
             /\ e.accuracy = Frac(e.actualRows.v, e.estimatedRows)
             /\ e.severity = BandOf(e.actualRows.v, e.estimatedRows)
             /\ e.severity \in {"accurate", "underestimate", "overestimate", "severe"}
             /\ (e.actualRows = Num(5000) /\ e.estimatedRows = 100) => e.severity = "severe"
             /\ e.actualRows = Num(0) => e.severity = "severe"

\* of three nodes one has no estimate and gets no entry, one is 5000 against
\* 100 (severe), one sits on the bound 2 of the accurate band
C7_Witness ==
  /\ pc = "rendered"
  /\ Len(result.flattenedNodes) = 3
  /\ Len(accuracies) = 2
  /\ \E j \in 1..2 : /\ accuracies[j].actualRows = Num(5000)
                     /\ accuracies[j].estimatedRows = 100
                     /\ accuracies[j].severity = "severe"
  /\ \E j \in 1..2 : /\ accuracies[j].actualRows = Num(20)
                     /\ accuracies[j].estimatedRows = 10
                     /\ accuracies[j].severity = "accurate"

(***************************************************************************)
(* SpecInput: every shape of input around a small plan: the shapes of      *)
(* EXPLAIN output, shapes that hold no plan, and values that are no        *)
(* EXPLAIN output at all; plan nodes with fields of the wrong type         *)
(***************************************************************************)
MaxInNodes == 2

TimedScan ==
  Obj(("Node Type" :> Str("Seq Scan")) @@ ("Relation Name" :> Str("users"))
      @@ ("Total Cost" :> Num(100)) @@ ("Plan Rows" :> Num(50000))
      @@ ("Filter" :> Str("(status = 1)")) @@ ("Actual Total Time" :> Num(10)))
KeyedSort ==
  Obj(("Node Type" :> Str("Sort")) @@ ("Total Cost" :> Num(80))
      @@ ("Plan Rows" :> Num(200000)) @@ ("Sort Key" :> Arr(<<Str("id DESC")>>)))
FilterNotString ==
  Obj(("Node Type" :> Str("Seq Scan")) @@ ("Relation Name" :> Str("users"))
      @@ ("Total Cost" :> Num(100)) @@ ("Plan Rows" :> Num(50000)) @@ ("Filter" :> Num(5)))
SortKeyNotArray ==
  Obj(("Node Type" :> Str("Sort")) @@ ("Total Cost" :> Num(80))
      @@ ("Plan Rows" :> Num(200000)) @@ ("Sort Key" :> Str("id")))
SortKeyOfNumbers ==
  Obj(("Node Type" :> Str("Sort")) @@ ("Total Cost" :> Num(80))
      @@ ("Plan Rows" :> Num(200000)) @@ ("Sort Key" :> Arr(<<Num(1)>>)))

InputRoots == {TimedScan, KeyedSort, FilterNotString, SortKeyNotArray}
InputPalette == {TimedScan, SortKeyOfNumbers, Null, Num(7)}

ExecutionTimeOnly(plan) == Obj(("Plan" :> plan) @@ ("Execution Time" :> Num(12)))
PlanAndNodeType(plan) ==
  Obj(("Plan" :> plan) @@ ("Node Type" :> Str("Outer")) @@ ("Planning Time" :> Num(3)))

\* the inputs built around a plan
InputForms(plan) ==
  {plan, Wrapped(plan), Timed(plan, 12, 3), ExecutionTimeOnly(plan), PlanAndNodeType(plan),
   Arr(<<Wrapped(plan)>>), Arr(<<Timed(plan, 12, 3)>>), Arr(<<PlanAndNodeType(plan)>>),
   Arr(<<Wrapped(plan), Timed(KeyedSort, 7, 7)>>),
   Arr(<<>>), Arr(<<plan>>), Arr(<<Obj(<<>>), Timed(plan, 12, 3)>>),
   Arr(<<Null, Wrapped(plan)>>), Arr(<<Num(1), Wrapped(plan)>>),
   Arr(<<Arr(<<Wrapped(plan)>>)>>),
   Obj(<<>>), Obj("Execution Time" :> Num(12)),
   Wrapped(Null), Wrapped(Num(5)), Wrapped(Num(0)), Wrapped(Str("Seq Scan")),
   Null, Num(5), Str("Plan")}

InitInput == InitWith(InputRoots)
AddInputChild == AddChild(InputPalette, MaxInNodes, Paths(tree))
AnalyzeInput == Analyze(InputForms(tree))
NextInput == AddInputChild \/ AnalyzeInput
SpecInput == InitInput /\ [][NextInput]_vars

\* the value of a time field of a holder object, 0 when the field is missing
TimeField(holder, field) ==
  IF holder.v[field].t = "number" THEN holder.v[field].v ELSE 0

\* x is an object that has a "Plan" field
HoldsPlan(x) == x.t = "object" /\ x.v["Plan"].t # "undefined"

\* C8: the root is chosen by precedence: for an array, the "Plan" field of its
\* first element with the times of that element; else for an object with a
\* "Plan" field, that field with the times of the object, also when the object
\* has a "Node Type" too; else for an object with a "Node Type", the object
\* itself with both times 0. A missing time field is 0, no element of an array
\* but the first is looked at, and the analysis is that of the chosen root.
C8_RootSelectedByPrecedence ==
  (pc = "analyzed" /\ ~locals.threw) =>
    LET holder == IF planRaw.t = "array"
                  THEN (IF Len(planRaw.v) > 0 THEN planRaw.v[1] ELSE Undef)
                  ELSE planRaw
        bare == /\ planRaw.t = "object"
                /\ ~HoldsPlan(planRaw)
                /\ planRaw.v["Node Type"].t # "undefined"
    IN  /\ HoldsPlan(holder) =>
             /\ locals.rootPlan = holder.v["Plan"]
             /\ locals.executionTime = TimeField(holder, "Execution Time")
             /\ locals.planningTime = TimeField(holder, "Planning Time")
        /\ bare =>
             /\ locals.rootPlan = planRaw
             /\ locals.executionTime = 0
             /\ locals.planningTime = 0
        /\ (~HoldsPlan(holder) /\ ~bare) => locals.rootPlan = Null
        /\ result.kind = "result" =>
             /\ result.flattenedNodes[1].raw = locals.rootPlan
             /\ result.flattenedNodes[1].depth = 0
             /\ locals.executionTime > 0 => result.analyzeMetrics.t = "metrics"
             /\ result.analyzeMetrics.t = "metrics" =>
                  /\ result.analyzeMetrics.executionTime = locals.executionTime
                  /\ result.analyzeMetrics.planningTime = locals.planningTime

\* an object with both a "Plan" and a "Node Type" field was analysed as its "Plan"
C8_Witness ==
  /\ pc = "analyzed"
  /\ result.kind = "result"
  /\ planRaw.t = "object"
  /\ HoldsPlan(planRaw)
  /\ planRaw.v["Node Type"].t = "string"
  /\ result.rootNodeType # planRaw.v["Node Type"].v
  /\ Len(result.flattenedNodes) = 2
  /\ locals.planningTime = 3
  /\ locals.executionTime = 0

\* C9: an input that matches none of the three rules (an empty array, an array
\* whose first element has no "Plan" field, an object with neither "Plan" nor
\* "Node Type") makes analyzePlan return null, without throwing.
C9_NoPlanFoundReturnsNull ==
  pc = "analyzed" =>
    LET emptyArray == planRaw.t = "array" /\ Len(planRaw.v) = 0
        firstLacksPlan == /\ planRaw.t = "array"
                          /\ Len(planRaw.v) > 0
                          /\ ~HoldsPlan(planRaw.v[1])
        neither == /\ planRaw.t = "object"
                   /\ planRaw.v["Plan"].t = "undefined"
                   /\ planRaw.v["Node Type"].t = "undefined"
    IN  (emptyArray \/ firstLacksPlan \/ neither) => result = ResultNull

\* null came back for an array whose first element holds no plan while its
\* second element does
C9_Witness ==
  /\ pc = "analyzed"
  /\ planRaw.t = "array"
  /\ Len(planRaw.v) = 2
  /\ ~HoldsPlan(planRaw.v[1])
  /\ HoldsPlan(planRaw.v[2])
  /\ planRaw.v[2].v["Plan"].t = "object"
  /\ result = ResultNull

\* C10 (as claimed): whatever decoded JSON value analyzePlan is given, the
\* call ends by returning a PlanAnalysisResult or null; it never throws.
C10_AnalyzePlanNeverThrows ==
  pc = "analyzed" => result.kind \in {"result", "null"}

(***************************************************************************)
(* SpecScan: a Seq Scan root with up to MaxScanNodes - 1 children that     *)
(* score as high as the root and draw suggestions of the root's priority   *)
(***************************************************************************)
MaxScanNodes == 7

ScanRoot(relation, alias, rows, cost, filter) ==
  Obj(("Node Type" :> Str("Seq Scan")) @@ ("Relation Name" :> relation) @@ ("Alias" :> alias)
      @@ ("Plan Rows" :> Num(rows)) @@ ("Total Cost" :> Num(cost)) @@ ("Filter" :> filter))

ScanRoots ==
  {ScanRoot(Str("orders"), Str("o"), 10000, 1000, Str("(paid = 1)")),
   ScanRoot(Str("orders"), Undef, 50000, 1, Str("ok")),
   ScanRoot(Undef, Str("o"), 10000, 1000, Str("(LOWER(name) = 1)")),
   ScanRoot(Str("orders"), Str("o"), 9999, 1000, Str("(paid = 1)")),
   ScanRoot(Str("orders"), Str("o"), 10000, 1000, Str(""))}
ScanPalette == {FilteredScan, LoopFiltered}

InitScan == InitWith(ScanRoots)
AddToScan == AddChild(ScanPalette, MaxScanNodes, RootOnly)
AnalyzeScan == Analyze(ArrayOnly(tree))
NextScan == AddToScan \/ AnalyzeScan
SpecScan == InitScan /\ [][NextScan]_vars

\* the string s has the string part somewhere inside it
Contains(s, part) ==
  \E i \in 1..(Len(s) - Len(part) + 1) : SubSeq(s, i, i + Len(part) - 1) = part

\* the input plan's root is a Seq Scan with a relation name, a filter, at
\* least 10000 estimated rows and a positive total cost
ScanRootQualifies ==
  /\ Get(tree, "Node Type") = Str("Seq Scan")
  /\ Truthy(Or(Get(tree, "Relation Name"), Get(tree, "Alias")))
  /\ Get(tree, "Filter").t = "string" /\ Get(tree, "Filter").v # ""
  /\ Get(tree, "Plan Rows").t = "number" /\ Get(tree, "Plan Rows").v >= 10000
  /\ Get(tree, "Total Cost").t = "number" /\ Get(tree, "Total Cost").v > 0

\* C11: when the root is a Seq Scan with a relation name, a filter, at least
\* 10000 estimated rows and a positive total cost, the analysis result has a
\* bottleneck entry for the root with score >= 15 and an "index" suggestion
\* whose nodeId is the root's id and whose statement names the root's relation
\* and, when the filter yields a column, that column.
C11_SeqScanRootIsBottleneckWithIndexSuggestion ==
  (pc = "analyzed" /\ ScanRootQualifies) =>
    /\ result.kind = "result"
    /\ LET root == result.flattenedNodes[1]
           relation == Or(Get(tree, "Relation Name"), Get(tree, "Alias")).v
           column == extractColumnFromFilter(Get(tree, "Filter").v)
       IN  /\ \E i \in 1..Len(result.bottlenecks) :
                /\ result.bottlenecks[i].node = root
                /\ result.bottlenecks[i].score >= 15
           /\ \E j \in 1..Len(result.suggestions) :
                LET s == result.suggestions[j]
                IN  /\ s.category = "index"
                    /\ s.nodeId = root.id
                    /\ Contains(s.sql, relation)
                    /\ column # Null => Contains(s.sql, "(" \o column.v \o ")")

\* a root exactly at the row threshold whose filter yields a column, under
\* which six more nodes score as high as the root, so that the cut to five
\* falls among equals
C11_Witness ==
  /\ pc = "analyzed" /\ ScanRootQualifies
  /\ Get(tree, "Plan Rows") = Num(10000)
  /\ extractColumnFromFilter(Get(tree, "Filter").v) = Str("paid")
  /\ Len(result.bottlenecks) = 5
  /\ result.bottlenecks[1].node = result.flattenedNodes[1]
  /\ result.bottlenecks[5].score = result.bottlenecks[1].score
  /\ LET qualifying == Qualifying
     IN  /\ Len(qualifying) = 7
         /\ qualifying[7].score = result.bottlenecks[1].score

(***************************************************************************)
(* SpecZero: roots whose total cost is zero, negative or absent, over      *)
(* nodes on both sides of the row thresholds                               *)
(***************************************************************************)
MaxZeroNodes == 3

\* a node that has every attribute a rule looks at
Attributed(type, rows, cost) ==
  Obj(("Node Type" :> Str(type)) @@ ("Relation Name" :> Str("t")) @@ ("CTE Name" :> Str("c"))
      @@ ("Plan Rows" :> Num(rows)) @@ ("Total Cost" :> cost)
      @@ ("Filter" :> Str("(a = 1)")) @@ ("Sort Key" :> Arr(<<Str("a")>>)))

ZeroRoots ==
  {Attributed("Result", 1, Num(0)), Attributed("Seq Scan", 9999, Num(-50)),
   Attributed("Nested Loop", 9999, Undef), Attributed("Sort", 100000, Num(0)),
   Attributed("Seq Scan", 9999, Num(50))}
ZeroPalette ==
  {Attributed(type, 9999, Num(10)) : type \in {"Seq Scan", "Sort", "Nested Loop", "CTE Scan"}}
  \cup {Attributed("Seq Scan", 10000, Num(10)), Attributed("Nested Loop", 50000, Num(10))}

InitZero == InitWith(ZeroRoots)
AddToZero == AddChild(ZeroPalette, MaxZeroNodes, RootOnly)
AnalyzeZero == Analyze(ArrayOnly(tree))
NextZero == AddToZero \/ AnalyzeZero
SpecZero == InitZero /\ [][NextZero]_vars

\* the input plan's root has a total cost that is absent, zero or negative
RootCostNotPositive ==
  \/ Get(tree, "Total Cost") \in {Undef, Null}
  \/ Get(tree, "Total Cost").t = "number" /\ Get(tree, "Total Cost").v <= 0

\* C12: when the root total cost is zero, negative or absent, the analysis
\* result has an empty cost-contribution map and an empty bottleneck list
\* whatever the nodes are; when in addition no node has 10000 or more estimated
\* rows, the suggestion list is empty as well.
C12_NoCostNoBottlenecksAndSmallPlansNoSuggestions ==
  (pc = "analyzed" /\ RootCostNotPositive) =>
    /\ result.kind = "result"
    /\ DOMAIN result.costContributions = {}
    /\ result.bottlenecks = <<>>
    /\ (\A i \in 1..Len(result.flattenedNodes) : result.flattenedNodes[i].planRows < 10000)
         => result.suggestions = <<>>

\* a root without a total cost over a Seq Scan and a CTE Scan that have filters
\* and 9999 rows each
C12_Witness ==
  /\ pc = "analyzed" /\ RootCostNotPositive
  /\ Get(tree, "Total Cost") = Undef
  /\ Len(result.flattenedNodes) = 3
  /\ \E i, j \in 2..3 : /\ result.flattenedNodes[i].nodeType = "Seq Scan"
                        /\ result.flattenedNodes[j].nodeType = "CTE Scan"
  /\ \A i \in 1..3 : /\ result.flattenedNodes[i].planRows = 9999
                     /\ Truthy(result.flattenedNodes[i].filter)
  /\ result.suggestions = <<>>
  /\ result.bottlenecks = <<>>

(***************************************************************************)
(* Suggestion ids, under SpecSuggest                                       *)
(***************************************************************************)
\* C13: within one analysis result the ids of the suggestions are pairwise
\* distinct.
C13_SuggestionIdsPairwiseDistinct ==
  Analyzed =>
    \A i, j \in 1..Len(result.suggestions) :
      i # j => result.suggestions[i].id # result.suggestions[j].id

(***************************************************************************)
(* SpecCalls: several calls of analyzePlan in flight at once, each at its  *)
(* own statement of the function body.  tree is the store of plan objects  *)
(* the callers hold, as it is now; planRaw[c] is the value call c was      *)
(* handed when it was called; locals[c], result[c] and pc[c] are call c's  *)
(* local constants, return value and position.  heap holds the two objects *)
(* that one function of a call creates and the functions after it are      *)
(* passed: the flattenedNodes array and the contributions Map.  An object  *)
(* is named by the call and the statement that created it (each call runs  *)
(* each of the two statements once); a local constant and a field of the   *)
(* return value hold the name of such an object, not its value.  Two calls *)
(* may be handed the same plan object.                                     *)
(***************************************************************************)
MaxCalls == 2
MaxPlans == 2
Calls == 1..MaxCalls
PlanObjects == 1..MaxPlans

\* a self join whose costs do not come in traversal order
JoinOfScans == AddAt(AddAt(LoopRoot, <<>>, ScanCheap), <<>>, ScanCostly)

CallInputs ==
  {Arr(<<Timed(JoinOfScans, 12, 1)>>), Wrapped(AddAt(LoopRoot, <<>>, SortKeyNotArray)),
   Arr(<<>>)}

\* the name that stands for no object
NoObject == <<0, "none">>

NoCallLocals ==
  [object |-> 0, sel |-> NoLocals, flattenedNodes |-> NoObject, rootCost |-> 0,
   costContributions |-> NoObject, bottlenecks |-> <<>>, suggestions |-> <<>>]

InitCalls ==
  /\ tree \in [PlanObjects -> CallInputs]
  /\ planRaw = [c \in Calls |-> Undef]
  /\ result = [c \in Calls |-> NoResult]
  /\ locals = [c \in Calls |-> NoCallLocals]
  /\ accuracies = <<>>
  /\ heap = <<>>
  /\ pc = [c \in Calls |-> "idle"]

\* const nodes: FlattenedNode[] = [] in call c's flattenPlanTree(rootPlan): an
\* array of that call
newArray(c) == <<c, "nodes">>

\* faulty variant: the Map is created once, when the module is loaded, and
\* every call sets its entries in it
newMapOncePerModule(c) == <<0, "contributions">>

\* const contributions = new Map() in call c's calculateCostContributions: a
\* Map of that call
newMap(c) == <<c, "contributions">>

\* the entries of the Map of that name; a Map just created has none
entriesAt(h, name) == IF name \in DOMAIN h THEN h[name] ELSE MapOf(<<>>)

\* the heap with the object of that name created or replaced
Stored(h, name, object) ==
  [n \in DOMAIN h \cup {name} |-> IF n = name THEN object ELSE h[n]]

\* call c leaves analyzePlan with the value returned
Returns(c, returned) ==
  /\ result' = [result EXCEPT ![c] = returned]
  /\ pc' = [pc EXCEPT ![c] = "returned"]
  /\ UNCHANGED <<tree, planRaw, locals, accuracies, heap>>

\* call c goes on to the statement at position next with its locals set and
\* the objects written
GoesOn(c, next, set, written) ==
  /\ locals' = [locals EXCEPT ![c] = set]
  /\ pc' = [pc EXCEPT ![c] = next]
  /\ heap' = written
  /\ UNCHANGED <<tree, planRaw, result, accuracies>>

\* a caller calls analyzePlan with one of the plan objects
Call(c) ==
  /\ pc[c] = "idle"
  /\ \E o \in PlanObjects :
       /\ planRaw' = [planRaw EXCEPT ![c] = tree[o]]
       /\ locals' = [locals EXCEPT ![c].object = o]
  /\ pc' = [pc EXCEPT ![c] = "called"]
  /\ UNCHANGED <<tree, result, accuracies, heap>>

\* the if-chain that sets rootPlan, executionTime and planningTime, and the
\* return null
SelectedRoot(c, sel) ==
  IF sel.threw THEN Returns(c, ResultThrew)
  ELSE IF ~Truthy(sel.rootPlan) THEN Returns(c, ResultNull)
  ELSE GoesOn(c, "selected", [locals[c] EXCEPT !.sel = sel], heap)

SelectRootStep(c) ==
  /\ pc[c] = "called"
  /\ SelectedRoot(c, selectRoot(tree[locals[c].object]))

\* const flattenedNodes = flattenPlanTree(rootPlan); const rootCost = ...
Flattened(c, flat, array) ==
  IF flat.threw THEN Returns(c, ResultThrew)
  ELSE GoesOn(c, "flattened",
              [locals[c] EXCEPT
                 !.flattenedNodes = array,
                 !.rootCost = Coalesce(Get(locals[c].sel.rootPlan, "Total Cost"), Num(0)).v],
              Stored(heap, array, flat.nodes))

FlattenStep(c) ==
  /\ pc[c] = "selected"
  /\ Flattened(c, flattenPlanTree(locals[c].sel.rootPlan, 0, Undef), newArray(c))

\* the array passed to calculateCostContributions after the call: [...nodes]
\* sorts a copy, the array passed keeps its order
passedNodesAfterSort(nodes) == nodes

\* const costContributions = calculateCostContributions(flattenedNodes, rootCost):
\* the entries are set in the Map the function creates
ContributionsSet(c, nodes, map) ==
  GoesOn(c, "costed", [locals[c] EXCEPT !.costContributions = map],
         Stored(Stored(heap, locals[c].flattenedNodes, passedNodesAfterSort(nodes)),
                map,
                calculateCostContributions(nodes, locals[c].rootCost) @@ entriesAt(heap, map)))

CostStep(c) ==
  /\ pc[c] = "flattened"
  /\ ContributionsSet(c, heap[locals[c].flattenedNodes], newMap(c))

\* const bottlenecks = identifyBottlenecks(flattenedNodes, costContributions)
ScoreStep(c) ==
  /\ pc[c] = "costed"
  /\ GoesOn(c, "scored",
            [locals[c] EXCEPT
               !.bottlenecks =
                  identifyBottlenecks(heap[locals[c].flattenedNodes],
                                      heap[locals[c].costContributions])],
            heap)

\* const suggestions = generateOptimizationSuggestions(flattenedNodes, costContributions)
Suggested(c, suggestions) ==
  IF suggestions.threw THEN Returns(c, ResultThrew)
  ELSE GoesOn(c, "suggested", [locals[c] EXCEPT !.suggestions = suggestions.items], heap)

SuggestStep(c) ==
  /\ pc[c] = "scored"
  /\ Suggested(c, generateOptimizationSuggestions(heap[locals[c].flattenedNodes],
                                                  heap[locals[c].costContributions]))

\* const analyzeMetrics = extractAnalyzeMetrics(...); return {...}
ReturnStep(c) ==
  /\ pc[c] = "suggested"
  /\ Returns(c, [kind |-> "result",
                 flattenedNodes |-> locals[c].flattenedNodes,
                 costContributions |-> locals[c].costContributions,
                 bottlenecks |-> locals[c].bottlenecks,
                 suggestions |-> locals[c].suggestions,
                 totalCost |-> locals[c].rootCost,
                 rootNodeType |-> Or(Get(locals[c].sel.rootPlan, "Node Type"), Str("Unknown")).v,
                 analyzeMetrics |-> extractAnalyzeMetrics(heap[locals[c].flattenedNodes],
                                      locals[c].sel.executionTime,
                                      locals[c].sel.planningTime)])

NextCalls ==
  \E c \in Calls :
    \/ Call(c)
    \/ SelectRootStep(c)
    \/ FlattenStep(c)
    \/ CostStep(c)
    \/ ScoreStep(c)
    \/ SuggestStep(c)
    \/ ReturnStep(c)
SpecCalls == InitCalls /\ [][NextCalls]_vars

\* the objects of the heap that call c holds the name of
Held(c) == {locals[c].flattenedNodes, locals[c].costContributions} \ {NoObject}

\* what the caller of a call reads in the value returned, now: the array and
\* the Map are the objects returned, as they are now
ReadBack(returned) ==
  IF returned.kind = "result"
  THEN [returned EXCEPT !.flattenedNodes = heap[returned.flattenedNodes],
                        !.costContributions = heap[returned.costContributions]]
  ELSE returned

\* C14: under every interleaving of the calls, a call that has returned has
\* returned exactly what analyzePlan gives for the value it was handed on its
\* own, and the caller still reads that in the objects returned whatever the
\* other calls have done since; no object that one call reads or writes is
\* held by another call; and the plan object a call was handed still has the
\* value it had when the call was made.
C14_CallsDoNotInterfere ==
  \A c \in Calls :
    /\ pc[c] = "returned" => ReadBack(result[c]) = analyzePlan(planRaw[c])
    /\ \A d \in Calls \ {c} : Held(c) \cap Held(d) = {}
    /\ pc[c] # "idle" => tree[locals[c].object] = planRaw[c]

\* two calls on the same plan object, each with an array and a Map of its own
\* on the heap: the first has returned a result whose nodes are not in cost
\* order, the second has set the entries of its Map and not yet read them
C14_Witness ==
  /\ locals[1].object = locals[2].object
  /\ pc[1] = "returned" /\ result[1].kind = "result"
  /\ pc[2] = "costed"
  /\ Cardinality(DOMAIN heap) = 4
  /\ result[1].costContributions # locals[2].costContributions
  /\ heap[result[1].costContributions] = heap[locals[2].costContributions]
  /\ Len(heap[result[1].flattenedNodes]) = 3
  /\ heap[result[1].flattenedNodes] # sortByCost(heap[result[1].flattenedNodes])

(***************************************************************************)
(* The contribution looked up for a node, under SpecCost                   *)
(***************************************************************************)
\* the quotient p is cost / rootCost * 100, or 100 when that is more
IsShareOf(p, cost, rootCost) ==
  IF cost <= rootCost THEN p.n * rootCost = cost * 100 * p.d
  ELSE p.n = 100 * p.d

\* C15: when the root total cost is positive, every flattened node has an entry
\* of its own in the contribution map: looking up the node's id gives a
\* contribution whose absoluteCost is the node's total cost and whose percentage
\* is the node's cost share, and every bottleneck entry carries the contribution
\* of its own node.
C15_EveryNodeLooksUpItsOwnContribution ==
  (Analyzed /\ result.totalCost > 0) =>
    LET cs == result.costContributions
        nodes == result.flattenedNodes
    IN  /\ \A i \in 1..Len(nodes) :
             /\ nodes[i].id \in DOMAIN cs
             /\ cs[nodes[i].id].absoluteCost = nodes[i].totalCost
             /\ IsShareOf(cs[nodes[i].id].percentage, nodes[i].totalCost, result.totalCost)
        /\ \A k \in 1..Len(result.bottlenecks) :
             result.bottlenecks[k].contribution.absoluteCost
               = result.bottlenecks[k].node.totalCost

(***************************************************************************)
(* SpecScore: a root of cost 1000 over nodes of every scored type, with    *)
(* rows on both sides of each row threshold, costs on both sides of each   *)
(* share bracket, and a filter with and without an index condition         *)
(***************************************************************************)
MaxScoreNodes == 2

Scored(type, rows, cost, filter, indexCond) ==
  Obj(("Node Type" :> Str(type)) @@ ("Plan Rows" :> Num(rows)) @@ ("Total Cost" :> Num(cost))
      @@ ("Filter" :> filter) @@ ("Index Cond" :> indexCond))

ScoreRoots ==
  {Scored("Result", 1, 1000, Undef, Undef),
   Scored("Seq Scan", 10000, 1000, Str("(a = 1)"), Undef)}

SizedTypes ==
  {<<"Seq Scan", 9999>>, <<"Seq Scan", 10000>>, <<"Nested Loop", 49999>>,
   <<"Nested Loop", 50000>>, <<"Sort", 99999>>, <<"Sort", 100000>>,
   <<"Bitmap Heap Scan", 99999>>, <<"Bitmap Heap Scan", 100000>>,
   <<"Hash", 99999>>, <<"Hash", 100000>>, <<"Index Scan", 10000>>}
BracketCosts == {149, 150, 299, 300, 499, 500}
FilterKinds == {<<Undef, Undef>>, <<Str("(a = 1)"), Undef>>, <<Str("(a = 1)"), Str("(b = 2)")>>}

ScorePalette ==
  {Scored(st[1], st[2], cost, fk[1], fk[2]) :
     st \in SizedTypes, cost \in BracketCosts, fk \in FilterKinds}

InitScore == InitWith(ScoreRoots)
AddToScore == AddChild(ScorePalette, MaxScoreNodes, RootOnly)
AnalyzeScore == Analyze(ArrayOnly(tree))
NextScore == AddToScore \/ AnalyzeScore
SpecScore == InitScore /\ [][NextScore]_vars

\* the points of the rules that hold for a node whose cost share is p
SumOfRules(node, p) ==
  (IF p.n >= 50 * p.d THEN 40 ELSE IF p.n >= 30 * p.d THEN 25
   ELSE IF p.n >= 15 * p.d THEN 15 ELSE 0)
  + (IF node.nodeType = "Seq Scan" /\ node.planRows >= 10000 THEN 30 ELSE 0)
  + (IF node.nodeType = "Nested Loop" /\ node.planRows >= 50000 THEN 25 ELSE 0)
  + (IF node.nodeType = "Sort" /\ node.planRows >= 100000 THEN 20 ELSE 0)
  + (IF Defined(node.filter) /\ ~Defined(node.indexCond) /\ node.planRows >= 10000
     THEN 15 ELSE 0)
  + (IF node.nodeType = "Bitmap Heap Scan" /\ node.planRows >= 100000 THEN 10 ELSE 0)
  + (IF node.nodeType = "Hash" /\ node.planRows >= 100000 THEN 10 ELSE 0)

\* C16: for each node with a cost contribution the bottleneck score is the sum
\* of the rules that hold (the highest cost-share bracket reached: 40, 25 or
\* 15; Seq Scan with >= 10000 rows: 30; Nested Loop with >= 50000 rows: 25;
\* Sort with >= 100000 rows: 20; a filter without an index condition with
\* >= 10000 rows: 15; Bitmap Heap Scan or Hash with >= 100000 rows: 10), and
\* the node is in the bottleneck list if and only if that sum is >= 15 (for
\* plans of at most five nodes, where the list is not cut).
C16_ScoreIsSumOfRulesAndCandidateIffFifteen ==
  (Analyzed /\ Len(result.flattenedNodes) <= 5) =>
    LET nodes == result.flattenedNodes
        cs == result.costContributions
        kept == result.bottlenecks
        contributed == {i \in 1..Len(nodes) : nodes[i].id \in DOMAIN cs}
    IN  /\ \A k \in 1..Len(kept) :
             /\ kept[k].node.id \in DOMAIN cs
             /\ kept[k].score = SumOfRules(kept[k].node, cs[kept[k].node.id].percentage)
        /\ \A i \in contributed :
             SumOfRules(nodes[i], cs[nodes[i].id].percentage) >= 15
               <=> \E k \in 1..Len(kept) : kept[k].node = nodes[i]
        /\ Len(kept) = Cardinality({i \in contributed :
                                      SumOfRules(nodes[i], cs[nodes[i].id].percentage) >= 15})

\* a Nested Loop with 50000 rows, a share of exactly 30 and a filter without an
\* index condition scores 25 + 25 + 15, above a root that scores 40
C16_Witness ==
  /\ Analyzed
  /\ Len(result.flattenedNodes) = 2
  /\ Len(result.bottlenecks) = 2
  /\ result.bottlenecks[1].node.nodeType = "Nested Loop"
  /\ result.bottlenecks[1].node.planRows = 50000
  /\ result.bottlenecks[1].node.totalCost = 300
  /\ result.bottlenecks[1].score = 65
  /\ result.bottlenecks[2].score = 40

\* the rank of a severity, highest first
SeverityRank(severity) ==
  CASE severity = "critical" -> 3
    [] severity = "high" -> 2
    [] severity = "medium" -> 1
    [] OTHER -> 0

\* C17: the severity of every bottleneck entry follows from its score alone:
\* critical for score >= 50, high for 35..49, medium for 20..34, low below; so
\* the severity never increases along the returned list.
C17_SeverityFromScoreNeverIncreases ==
  Analyzed =>
    LET kept == result.bottlenecks
    IN  /\ \A k \in 1..Len(kept) :
             /\ kept[k].score >= 50 => kept[k].severity = "critical"
             /\ (kept[k].score >= 35 /\ kept[k].score <= 49) => kept[k].severity = "high"
             /\ (kept[k].score >= 20 /\ kept[k].score <= 34) => kept[k].severity = "medium"
             /\ kept[k].score < 20 => kept[k].severity = "low"
        /\ \A k \in 1..(Len(kept) - 1) :
             SeverityRank(kept[k].severity) >= SeverityRank(kept[k + 1].severity)

\* a node that scores exactly 50 is critical, ahead of a root that is high
C17_Witness ==
  /\ Analyzed
  /\ Len(result.bottlenecks) = 2
  /\ result.bottlenecks[1].score = 50 /\ result.bottlenecks[1].severity = "critical"
  /\ result.bottlenecks[2].score = 40 /\ result.bottlenecks[2].severity = "high"

(***************************************************************************)
(* The order of the accuracy list, under SpecAccuracy                      *)
(***************************************************************************)
\* severe first, then under- and overestimates alike, then accurate
AccuracyRank(severity) ==
  CASE severity = "severe" -> 0
    [] severity \in {"underestimate", "overestimate"} -> 1
    [] OTHER -> 2

\* the entries of the list s that have rank r, in the order of s
OfRank(s, r) ==
  LET F[i \in 0..Len(s)] ==
        IF i = 0 THEN <<>>
        ELSE IF AccuracyRank(s[i].severity) = r THEN Append(F[i - 1], s[i])
        ELSE F[i - 1]
  IN  F[Len(s)]

\* C18: in the list calculateEstimateAccuracy returns, every severe entry comes
\* before every underestimate or overestimate entry and each of those before
\* every accurate entry; underestimates and overestimates rank equal, and the
\* entries of one rank keep the order of the node traversal.
C18_AccuracyListRankedAndStable ==
  pc = "rendered" =>
    LET traversal == accuracyEntries(result.flattenedNodes)
    IN  /\ Len(accuracies) = Len(traversal)
        /\ \A i, j \in 1..Len(accuracies) :
             i < j => AccuracyRank(accuracies[i].severity) <= AccuracyRank(accuracies[j].severity)
        /\ \A r \in 0..2 : OfRank(accuracies, r) = OfRank(traversal, r)

\* an accurate node, then an overestimate, then an underestimate in traversal
\* order: the list has the overestimate, the underestimate, the accurate entry
C18_Witness ==
  /\ pc = "rendered"
  /\ Len(accuracies) = 3
  /\ accuracies[1].severity = "overestimate"
  /\ accuracies[2].severity = "underestimate"
  /\ accuracies[3].severity = "accurate"
  /\ accuracyEntries(result.flattenedNodes)[1] = accuracies[3]
  /\ accuracyEntries(result.flattenedNodes)[2] = accuracies[1]

(***************************************************************************)
(* SpecTiming: plans of up to MaxTimingNodes nodes with and without actual *)
(* rows, actual total time and loop count, handed over with no execution   *)
(* time, with execution time zero, positive and negative                   *)
(***************************************************************************)
MaxTimingNodes == 3

Ran(type, actualRows, actualTotalTime, actualLoops) ==
  Obj(("Node Type" :> Str(type)) @@ ("Plan Rows" :> Num(100)) @@ ("Actual Rows" :> actualRows)
      @@ ("Actual Total Time" :> actualTotalTime) @@ ("Actual Loops" :> actualLoops))

TimingRoots ==
  {Ran("Result", Undef, Undef, Undef), Ran("Result", Num(5), Undef, Undef),
   Ran("Result", Num(5), Num(40), Undef), Ran("Result", Num(5), Num(40), Num(2)),
   Ran("Result", Undef, Num(0), Undef), Ran("Result", Num(5), Undef, Num(2))}
TimingPalette ==
  {Ran("Seq Scan", Undef, Undef, Undef), Ran("Seq Scan", Num(5), Undef, Undef),
   Ran("Hash", Num(5), Num(10), Undef), Ran("Hash", Num(5), Num(10), Num(3)),
   Ran("Sort", Undef, Num(30), Num(0))}

ExecutionTimes == {0, 50, 0 - 5}
TimingForms(plan) ==
  {plan, Wrapped(plan)} \cup {Timed(plan, exec, 1) : exec \in ExecutionTimes}

InitTiming == InitWith(TimingRoots)
AddToTiming == AddChild(TimingPalette, MaxTimingNodes, RootOnly)
AnalyzeTiming == Analyze(TimingForms(tree))
NextTiming == AddToTiming \/ AnalyzeTiming
SpecTiming == InitTiming /\ [][NextTiming]_vars

\* the plan nodes of the analysed plan, in traversal order
RawNodes == [i \in 1..Len(result.flattenedNodes) |-> result.flattenedNodes[i].raw]

\* no node has actual rows or an actual total time
NoActualData ==
  \A i \in 1..Len(RawNodes) :
    /\ Get(RawNodes[i], "Actual Rows") = Undef
    /\ Get(RawNodes[i], "Actual Total Time") = Undef

\* no node has an actual total time or an actual startup time
NoActualTiming ==
  \A i \in 1..Len(RawNodes) :
    /\ Get(RawNodes[i], "Actual Total Time") = Undef
    /\ Get(RawNodes[i], "Actual Startup Time") = Undef

\* C19 (as stated): extractAnalyzeMetrics returns undefined whenever no node
\* carries actual timing data and the top-level execution time is zero, and a
\* metrics object in every other case.
C19_UndefinedIffNoTimingAndNoExecutionTime ==
  pc = "analyzed" =>
    /\ result.kind = "result"
    /\ IF NoActualTiming /\ locals.executionTime = 0
       THEN result.analyzeMetrics.t = "undefined"
       ELSE result.analyzeMetrics.t = "metrics"

\* C19 (amended): extractAnalyzeMetrics returns undefined exactly when no node
\* has actual rows or an actual total time and the top-level execution time is
\* zero; in every other case it returns a metrics object, whose flag tells
\* whether a node had such data; it never fails.
C19_UndefinedIffNoActualDataAndNoExecutionTime ==
  pc = "analyzed" =>
    /\ result.kind = "result"
    /\ IF NoActualData /\ locals.executionTime = 0
       THEN result.analyzeMetrics.t = "undefined"
       ELSE /\ result.analyzeMetrics.t = "metrics"
            /\ result.analyzeMetrics.hasAnalyzeData = ~NoActualData
            /\ result.analyzeMetrics.executionTime = locals.executionTime

\* three nodes without actual data handed over with an execution time of zero:
\* no metrics
C19_Witness ==
  /\ pc = "analyzed"
  /\ Len(result.flattenedNodes) = 3
  /\ NoActualData
  /\ HasKey(planRaw, "Execution Time") /\ locals.executionTime = 0
  /\ result.analyzeMetrics.t = "undefined"

\* actual total time times loops of a plan node, loops being 1 when absent
Elapsed(plan) ==
  Get(plan, "Actual Total Time").v
    * (IF Get(plan, "Actual Loops") = Undef THEN 1 ELSE Get(plan, "Actual Loops").v)

\* the root's elapsed time, 0 when the root has no actual total time
RootElapsed == IF Get(RawNodes[1], "Actual Total Time") = Undef THEN 0 ELSE Elapsed(RawNodes[1])

\* the plan nodes that have an actual total time
TimedRaw == {i \in 1..Len(RawNodes) : Get(RawNodes[i], "Actual Total Time") # Undef}

\* the timing list has one entry for exactly each node with an actual total
\* time, with that node's elapsed time
OneTimingPerTimedNode ==
  LET timings == result.analyzeMetrics.nodeTimings
  IN  /\ Len(timings) = Cardinality(TimedRaw)
      /\ \A i \in TimedRaw :
           Cardinality({k \in 1..Len(timings) :
                          /\ timings[k].nodeId = result.flattenedNodes[i].id
                          /\ timings[k].actualTime = Elapsed(RawNodes[i])})
           = Cardinality({j \in TimedRaw :
                            /\ result.flattenedNodes[j].id = result.flattenedNodes[i].id
                            /\ Elapsed(RawNodes[j]) = Elapsed(RawNodes[i])})

\* every share is elapsed / reference * 100, or 0 when zeroed holds
SharesOf(reference, zeroed) ==
  \A k \in 1..Len(result.analyzeMetrics.nodeTimings) :
    LET timing == result.analyzeMetrics.nodeTimings[k]
    IN  IF zeroed THEN timing.timePercentage.n = 0
        ELSE timing.timePercentage.n * reference
               = timing.actualTime * 100 * timing.timePercentage.d

\* C20 (as stated): the reference time is the top-level execution time when it
\* is nonzero, otherwise the root's actual total time times its loop count;
\* there is one timing entry for exactly each node with an actual total time,
\* its elapsed time is actual total time times loops, and its share is
\* elapsed / reference * 100, or 0 when the reference time is 0.
C20_ReferenceTimeIsNonzeroExecutionTime ==
  (pc = "analyzed" /\ result.analyzeMetrics.t = "metrics") =>
    LET reference == IF locals.executionTime # 0 THEN locals.executionTime ELSE RootElapsed
    IN  /\ OneTimingPerTimedNode
        /\ SharesOf(reference, reference = 0)

\* C20 (amended): the reference time is the top-level execution time when it
\* is positive, otherwise the root's actual total time times its loop count
\* (loops default 1; 0 when the root has no actual total time); there is one
\* timing entry for exactly each node with an actual total time, its elapsed
\* time is actual total time times loops, and its share is
\* elapsed / reference * 100, or 0 when the reference time is not positive.
C20_ReferenceTimeIsPositiveExecutionTime ==
  (pc = "analyzed" /\ result.analyzeMetrics.t = "metrics") =>
    LET reference == IF locals.executionTime > 0 THEN locals.executionTime ELSE RootElapsed
    IN  /\ OneTimingPerTimedNode
        /\ SharesOf(reference, reference <= 0)

\* no execution time, so the root's 40 * 2 is the reference: a child that took
\* 10 in one loop has a share of 12.5, and a node without time has no entry
C20_Witness ==
  /\ pc = "analyzed" /\ result.analyzeMetrics.t = "metrics"
  /\ locals.executionTime = 0
  /\ RootElapsed = 80
  /\ Len(result.flattenedNodes) = 3
  /\ Len(result.analyzeMetrics.nodeTimings) = 2
  /\ result.analyzeMetrics.nodeTimings[2].actualTime = 10
  /\ result.analyzeMetrics.nodeTimings[2].timePercentage.n * 2
       = 25 * result.analyzeMetrics.nodeTimings[2].timePercentage.d

(***************************************************************************)
(* SpecPriority: a root that carries a relation name, with and without a   *)
(* positive cost, over nodes that draw a suggestion of every category at   *)
(* costs on both sides of each priority tier                               *)
(***************************************************************************)
MaxPriorityNodes == 3

PriorityRoots == {Attributed("Result", 1, Num(1000)), Attributed("Result", 1, Num(0))}
TierCosts == {99, 100, 249, 250, 399, 400}
PriorityPalette ==
  {Attributed(type, 100000, Num(cost)) :
     type \in {"Seq Scan", "Sort", "Nested Loop", "CTE Scan"}, cost \in TierCosts}

InitPriority == InitWith(PriorityRoots)
AddToPriority == AddChild(PriorityPalette, MaxPriorityNodes, RootOnly)
AnalyzePriority == Analyze(ArrayOnly(tree))
NextPriority == AddToPriority \/ AnalyzePriority
SpecPriority == InitPriority /\ [][NextPriority]_vars

\* the share of the root's total cost that a flattened node's own total cost
\* is, in hundredths of a percent and at most 100 percent
OwnShareHundredths(node) ==
  IF result.totalCost <= 0 THEN 0
  ELSE IF node.totalCost >= result.totalCost THEN 10000
  ELSE (node.totalCost * 10000) \div result.totalCost

\* the suggestions the loop of generateOptimizationSuggestions pushes in the
\* iteration for the i-th flattened node of the result
PushedFor(i) ==
  suggestionsFor(result.flattenedNodes, result.flattenedNodes[i], result.costContributions).items

\* C21: every suggestion of category index, sort or join has the priority its
\* node's cost share gives: critical for a share >= 40, high for >= 25, medium
\* for >= 10, low otherwise; every suggestion of category general has priority
\* medium.  The share is that of the node the suggestion was generated for.
C21_PriorityFromCostShare ==
  (Analyzed /\ result.totalCost > 0) =>
    \A i \in 1..Len(result.flattenedNodes) :
      LET share == OwnShareHundredths(result.flattenedNodes[i])
          pushed == PushedFor(i)
      IN  \A k \in 1..Len(pushed) :
            /\ pushed[k].category \in {"index", "sort", "join"} =>
                 pushed[k].priority = IF share >= 4000 THEN "critical"
                                      ELSE IF share >= 2500 THEN "high"
                                      ELSE IF share >= 1000 THEN "medium"
                                      ELSE "low"
            /\ pushed[k].category = "general" => pushed[k].priority = "medium"

(***************************************************************************)
(* SpecFilter: trees of up to MaxFilterNodes nodes around an Index Scan    *)
(* that meets every condition of the filter rule, each other node failing  *)
(* one condition or changing the cost share                                *)
(***************************************************************************)
MaxFilterNodes == 3

Filtered(type, relation, rows, cost, filter, indexCond) ==
  Obj(("Node Type" :> Str(type)) @@ ("Relation Name" :> relation) @@ ("Plan Rows" :> Num(rows))
      @@ ("Total Cost" :> Num(cost)) @@ ("Filter" :> filter) @@ ("Index Cond" :> indexCond))

FilterRoots ==
  {Filtered("Result", Undef, 1, 1000, Undef, Undef),
   Filtered("Result", Str("r"), 10000, 1000, Str("(a = 1)"), Undef)}
FilterPalette ==
  {Filtered("Index Scan", Str("t"), 10000, 200, Str("(a = 1)"), Undef),
   Filtered("Index Scan", Str("t"), 10000, 199, Str("(a = 1)"), Undef),
   Filtered("Index Scan", Str("t"), 10000, 500, Str("(a = 1)"), Undef),
   Filtered("Index Scan", Str("t"), 10000, 10, Str("(a = 1)"), Undef),
   Filtered("Seq Scan", Str("t"), 10000, 200, Str("(a = 1)"), Undef),
   Filtered("Hash Join", Undef, 10000, 200, Str("(a = 1)"), Undef),
   Filtered("Index Scan", Str("t"), 9999, 200, Str("(a = 1)"), Undef),
   Filtered("Index Scan", Str("t"), 10000, 200, Undef, Undef),
   Filtered("Index Scan", Str("t"), 10000, 200, Str("ok"), Undef),
   Filtered("Index Scan", Str("t"), 10000, 200, Str("(a = 1)"), Str("(b = 2)"))}

InitFilter == InitWith(FilterRoots)
AddToFilter == AddChild(FilterPalette, MaxFilterNodes, Paths(tree))
AnalyzeFilter == Analyze(ArrayOnly(tree))
NextFilter == AddToFilter \/ AnalyzeFilter
SpecFilter == InitFilter /\ [][NextFilter]_vars

\* the conditions of the filter rule hold for the flattened node
FilterRuleHolds(nodes, node) ==
  /\ node.nodeType # "Seq Scan"
  /\ Get(node.raw, "Filter").t = "string" /\ Get(node.raw, "Filter").v # ""
  /\ Get(node.raw, "Index Cond") = Undef
  /\ Get(node.raw, "Plan Rows").t = "number" /\ Get(node.raw, "Plan Rows").v >= 10000
  /\ \/ Truthy(Get(node.raw, "Relation Name"))
     \/ Truthy(findRelationName(nodes, node))
  /\ extractColumnFromFilter(Get(node.raw, "Filter").v) # Null

\* C22: a suggestion of category "filter" is generated for a node if and only
\* if the node is no Seq Scan, has a filter and no index condition, has
\* estimated rows >= 10000, a relation name is resolvable (its own, else by
\* lookup) and a column is extractable from the filter; its priority is high
\* when the cost share of the node it was generated for is >= 20 and medium
\* otherwise.
C22_FilterSuggestionIffRuleHolds ==
  Analyzed =>
    LET nodes == result.flattenedNodes
    IN  \A i \in 1..Len(nodes) :
          LET filters == SelectSeq(PushedFor(i), LAMBDA s : s.category = "filter")
          IN  /\ Len(filters) = IF FilterRuleHolds(nodes, nodes[i]) THEN 1 ELSE 0
              /\ \A k \in 1..Len(filters) :
                   filters[k].priority = IF OwnShareHundredths(nodes[i]) >= 2000
                                         THEN "high" ELSE "medium"

(***************************************************************************)
(* SpecSort: trees of up to MaxSortNodes nodes with Sort nodes at every    *)
(* depth, relation names above, below, on and nowhere near them, and three *)
(* deeper plans: a chain, a merge join over two Sorts that share an id,    *)
(* and one over two Sorts that do not                                      *)
(***************************************************************************)
MaxSortNodes == 3

Sorted(type, relation, rows, sortKey) ==
  Obj(("Node Type" :> Str(type)) @@ ("Relation Name" :> relation) @@ ("Plan Rows" :> Num(rows))
      @@ ("Total Cost" :> Num(100)) @@ ("Sort Key" :> sortKey))

\* Sort > Seq Scan on the relation
SortOver(relation) ==
  AddAt(Sorted("Sort", Undef, 100000, Arr(<<Str("a")>>)), <<>>,
        Sorted("Seq Scan", Str(relation), 1, Undef))

\* Result r > Limit > Sort > Limit > Seq Scan t
ChainToScan ==
  AddAt(Sorted("Result", Str("r"), 1, Undef), <<>>,
        AddAt(Sorted("Limit", Undef, 1, Undef), <<>>,
              AddAt(Sorted("Sort", Undef, 100000, Arr(<<Str("a")>>)), <<>>,
                    AddAt(Sorted("Limit", Undef, 1, Undef), <<>>,
                          Sorted("Seq Scan", Str("t"), 1, Undef)))))

\* Merge Join > [Sort > Seq Scan a, Sort > Seq Scan b]: both Sorts get the id
\* "Merge Join--0/Sort--1"
MergeOfSorts ==
  AddAt(AddAt(Sorted("Merge Join", Undef, 1, Undef), <<>>, SortOver("a")), <<>>, SortOver("b"))

\* Merge Join > [Sort > Seq Scan a, Limit > Sort > Seq Scan b]
MergeOfSortAndLimit ==
  AddAt(AddAt(Sorted("Merge Join", Undef, 1, Undef), <<>>, SortOver("a")), <<>>,
        AddAt(Sorted("Limit", Undef, 1, Undef), <<>>, SortOver("b")))

SortRoots ==
  {Sorted("Result", Str("r"), 1, Undef),
   Sorted("Sort", Str("s"), 100000, Arr(<<Str("a")>>)),
   Sorted("Sort", Undef, 100000, Arr(<<Str("a")>>)),
   ChainToScan, MergeOfSorts, MergeOfSortAndLimit}
SortPalette ==
  {Sorted("Sort", Undef, 100000, Arr(<<Str("a")>>)),
   Sorted("Sort", Undef, 99999, Arr(<<Str("a")>>)),
   Sorted("Sort", Undef, 100000, Arr(<<Str("(a+b)")>>)),
   Sorted("Sort", Undef, 100000, Arr(<<>>)),
   Sorted("Sort", Undef, 100000, Undef),
   Sorted("Sort", Str("s"), 100000, Arr(<<Str("a")>>)),
   Sorted("Gather Merge", Undef, 100000, Arr(<<Str("a")>>)),
   Sorted("Limit", Undef, 1, Undef),
   Sorted("Seq Scan", Str("t"), 1, Undef)}

InitSort == InitWith(SortRoots)
AddToSort == AddChild(SortPalette, MaxSortNodes, Paths(tree))
AnalyzeSort == Analyze(ArrayOnly(tree))
NextSort == AddToSort \/ AnalyzeSort
SpecSort == InitSort /\ [][NextSort]_vars

StartsWith(s, prefix) == Len(s) >= Len(prefix) /\ SubSeq(s, 1, Len(prefix)) = prefix

\* the positions of the plan nodes of the analysed plan, as child-index paths
\* from the root, in the order of the flattened nodes (pre-order)
Positions ==
  LET ps == Paths(locals.rootPlan)
  IN  [i \in 1..Cardinality(ps) |-> CHOOSE p \in ps : PreRank(ps, p) = i]

\* the plan nodes below the i-th one in the plan tree, and those above it
Descendants(order, i) ==
  {j \in 1..Len(order) : Len(order[i]) < Len(order[j]) /\ StartsWith(order[j], order[i])}
Ancestors(order, i) == {j \in 1..Len(order) : i \in Descendants(order, j)}
ParentOf(order, i) == {j \in Ancestors(order, i) : Len(order[j]) = Len(order[i]) - 1}
Carrying(nodes, among) == {j \in among : Truthy(nodes[j].relationName)}
First(indices) == CHOOSE i \in indices : \A j \in indices : i <= j
Last(indices) == CHOOSE i \in indices : \A j \in indices : j <= i
RelationOf(nodes, indices) == IF indices = {} THEN Null ELSE nodes[First(indices)].relationName

\* no two flattened nodes have the same id
DistinctIds(nodes) == \A i, j \in 1..Len(nodes) : i # j => nodes[i].id # nodes[j].id

\* the first relation name below the i-th node, else that of the nearest ancestor carrying one
LookupThroughAncestors(nodes, order, i) ==
  IF Carrying(nodes, Descendants(order, i)) # {}
  THEN nodes[First(Carrying(nodes, Descendants(order, i)))].relationName
  ELSE IF Carrying(nodes, Ancestors(order, i)) # {}
  THEN nodes[Last(Carrying(nodes, Ancestors(order, i)))].relationName
  ELSE Null

\* the first relation name in the subtree of the i-th node's first child, else
\* the node's own
LookupBelowFirstChild(nodes, order, i, firstChild) ==
  IF Carrying(nodes, {firstChild} \cup Descendants(order, firstChild)) # {}
  THEN nodes[First(Carrying(nodes, {firstChild} \cup Descendants(order, firstChild)))].relationName
  ELSE nodes[i].relationName

\* the first relation name below the i-th node, else that of its parent alone; a
\* node that carries a relation name itself and has children gets the first
\* name in the subtree of its first child, else its own
LookupThroughParent(nodes, order, i) ==
  IF Truthy(nodes[i].relationName) /\ Descendants(order, i) # {}
  THEN LookupBelowFirstChild(nodes, order, i, First(Descendants(order, i)))
  ELSE IF Carrying(nodes, Descendants(order, i)) # {}
  THEN nodes[First(Carrying(nodes, Descendants(order, i)))].relationName
  ELSE RelationOf(nodes, Carrying(nodes, ParentOf(order, i)))

\* the conditions of the sort rule on the node itself
SortRuleHolds(node) ==
  /\ node.nodeType = "Sort"
  /\ Get(node.raw, "Sort Key").t = "array" /\ Len(Get(node.raw, "Sort Key").v) >= 1
  /\ Get(node.raw, "Plan Rows").t = "number" /\ Get(node.raw, "Plan Rows").v >= 100000
  /\ \E k \in 1..Len(Get(node.raw, "Sort Key").v) :
       extractSortColumn(Get(node.raw, "Sort Key").v[k].v) # Null

\* the sort suggestions pushed in the iteration for the i-th flattened node
SortSuggestionsFor(i) == SelectSeq(PushedFor(i), LAMBDA s : s.category = "sort")

\* the sort suggestions are those the rule and the lookup give
SortSuggestionsAsLookedUp(nodes, i, relation) ==
  /\ Len(SortSuggestionsFor(i)) = IF SortRuleHolds(nodes[i]) /\ Truthy(relation) THEN 1 ELSE 0
  /\ \A k \in 1..Len(SortSuggestionsFor(i)) :
       StartsWith(SortSuggestionsFor(i)[k].sql, "CREATE INDEX idx_" \o relation.v \o "_a\n")

(***************************************************************************)
MaxExtractNodes == 3

Extracted(type, relation, rows, filter, sortKey) ==
  Obj(("Node Type" :> Str(type)) @@ ("Relation Name" :> relation) @@ ("CTE Name" :> Str("c"))
      @@ ("Plan Rows" :> Num(rows)) @@ ("Total Cost" :> Num(100))
      @@ ("Filter" :> filter) @@ ("Sort Key" :> sortKey))

ExtractRoots == {Extracted("Result", Undef, 1, Undef, Undef)}
ExtractPalette ==
  {Extracted("Seq Scan", Str("t"), 10000, Str("ok"), Undef),
   Extracted("Seq Scan", Str("t"), 10000, Str("(a = 1)"), Undef),
   Extracted("Seq Scan", Str("v"), 10000, Str("a" \o VerticalTab \o "= 1"), Undef),
   Extracted("Seq Scan", Str("w"), 10000, Str("a" \o NoBreakSpace \o "IS" \o ByteOrderMark \o "NULL"), Undef),
   Extracted("Sort", Undef, 100000, Undef, Arr(<<Str("(a+b)")>>)),
   Extracted("Sort", Undef, 100000, Undef, Arr(<<Str("a")>>)),
   Extracted("Sort", Undef, 100000, Undef, Arr(<<Str("(a+b)"), Str("b")>>)),
   Extracted("Sort", Str("s"), 100000, Str("ok"), Arr(<<Str("(a+b)")>>)),
   Extracted("Nested Loop", Str("u"), 50000, Str("ok"), Undef),
   Extracted("Nested Loop", Str("u"), 50000, Str("(a = 1)"), Undef),
   Extracted("CTE Scan", Undef, 10000, Str("ok"), Undef)}

InitExtract == InitWith(ExtractRoots)
AddToExtract == AddChild(ExtractPalette, MaxExtractNodes, Paths(tree))
AnalyzeExtract == Analyze(ArrayOnly(tree))
NextExtract == AddToExtract \/ AnalyzeExtract
SpecExtract == InitExtract /\ [][NextExtract]_vars

\* the node has a filter that gives no column
FilterFails(node) ==
  node.filter.t = "string" /\ node.filter.v # "" /\ extractColumnFromFilter(node.filter.v) = Null
\* the node has sort keys and none of them gives a column
SortFails(node) ==
  /\ node.sortKey.t = "array" /\ Len(node.sortKey.v) > 0
  /\ \A k \in 1..Len(node.sortKey.v) : extractSortColumn(node.sortKey.v[k].v) = Null

\* the node with a filter and a sort key that give the column a in place of
\* those that give none
Repaired(node) ==
  [node EXCEPT !.filter = IF FilterFails(node) THEN Str("(a = 1)") ELSE @,
               !.sortKey = IF SortFails(node) THEN Arr(<<Str("a")>>) ELSE @]

\* what is left of the suggestions of the repaired node when the extractions of
\* node fail: no filter and no sort suggestion, the index suggestion commented
Degraded(node, suggestions) ==
  LET kept == SelectSeq(suggestions, LAMBDA g :
                /\ ~(g.category = "filter" /\ FilterFails(node))
                /\ ~(g.category = "sort" /\ SortFails(node)))
  IN  [k \in 1..Len(kept) |->
         IF kept[k].category = "index" /\ FilterFails(node)
         THEN [kept[k] EXCEPT !.sql = "-- (filter needs analysis)\n-- CREATE INDEX idx_"
                                      \o node.relationName.v \o "_<column>\n-- ON "
                                      \o node.relationName.v \o " (<column>);"]
         ELSE kept[k]]

\* C24: a failed column extraction never aborts the analysis and never changes
\* what is generated for other nodes: with the failing filter or sort key of a
\* node replaced by one that gives a column, every other node gets the same
\* suggestions, and the node itself gets the same ones except that its index
\* suggestion has a commented placeholder as SQL and its sort or filter
\* suggestion is missing.
C24_FailedExtractionIsLocal ==
  /\ pc = "analyzed" => result.kind = "result"
  /\ Analyzed =>
       LET nodes == result.flattenedNodes
           contributions == result.costContributions
       IN  \A i \in 1..Len(nodes) :
             LET repaired == [nodes EXCEPT ![i] = Repaired(nodes[i])]
             IN  \A j \in 1..Len(nodes) :
                   suggestionsFor(nodes, nodes[j], contributions).items
                     = IF j = i
                       THEN Degraded(nodes[i], suggestionsFor(repaired, repaired[i], contributions).items)
                       ELSE suggestionsFor(repaired, nodes[j], contributions).items

\* a Seq Scan and a Nested Loop whose filters give no column: the index
\* suggestion is there, commented, and so is the join suggestion, with no
\* filter suggestion
C24_Witness ==
  /\ Analyzed
  /\ Len(result.flattenedNodes) = 3
  /\ result.flattenedNodes[2].nodeType = "Seq Scan"
  /\ FilterFails(result.flattenedNodes[2])
  /\ result.flattenedNodes[3].nodeType = "Nested Loop"
  /\ FilterFails(result.flattenedNodes[3])
  /\ Len(result.suggestions) = 2
  /\ \E a, b \in 1..2 :
       /\ result.suggestions[a].category = "index"
       /\ StartsWith(result.suggestions[a].sql, "-- ")
       /\ result.suggestions[b].category = "join"
       /\ result.suggestions[b].nodeId = result.flattenedNodes[3].id

(***************************************************************************)
(* SpecMissing: trees of up to MaxMissingNodes nodes, each a node with     *)
(* every field from which some fields are missing                          *)
(***************************************************************************)
MaxMissingNodes == 3

Complete ==
  Obj(("Node Type" :> Str("Sort")) @@ ("Relation Name" :> Str("t")) @@ ("Alias" :> Str("a"))
      @@ ("Startup Cost" :> Num(10)) @@ ("Total Cost" :> Num(100))
      @@ ("Plan Rows" :> Num(100000)) @@ ("Plan Width" :> Num(8))
      @@ ("Filter" :> Str("(a = 1)")) @@ ("Index Cond" :> Str("(b = 2)"))
      @@ ("Sort Key" :> Arr(<<Str("a")>>))
      @@ ("Actual Rows" :> Num(5)) @@ ("Actual Loops" :> Num(2))
      @@ ("Actual Startup Time" :> Num(1)) @@ ("Actual Total Time" :> Num(3)))

NodeFields ==
  {"Node Type", "Relation Name", "Alias", "Startup Cost", "Total Cost", "Plan Rows",
   "Plan Width", "Filter", "Index Cond", "Sort Key", "Actual Rows", "Actual Loops",
   "Actual Startup Time", "Actual Total Time"}

\* the plan node without the fields missing
Without(plan, missing) ==
  [t |-> "object", v |-> [k \in Keys |-> IF k \in missing THEN Undef ELSE plan.v[k]]]

MissingRoots ==
  {Complete, Without(Complete, {"Actual Loops"}), Without(Complete, NodeFields)}
MissingPalette ==
  {Complete, Without(Complete, NodeFields), Without(Complete, {"Relation Name", "Alias"})}
    \cup {Without(Complete, {k}) : k \in NodeFields}

InitMissing == InitWith(MissingRoots)
AddToMissing == AddChild(MissingPalette, MaxMissingNodes, RootOnly)
AnalyzeMissing == Analyze(ArrayOnly(tree))
NextMissing == AddToMissing \/ AnalyzeMissing
SpecMissing == InitMissing /\ [][NextMissing]_vars

Absent(node, field) == Get(node.raw, field) = Undef

\* the defaults of the flattened node for the fields other than the relation name
DefaultsOf(node) ==
  /\ Absent(node, "Total Cost") => node.totalCost = 0
  /\ Absent(node, "Startup Cost") => node.startupCost = 0
  /\ Absent(node, "Plan Rows") => node.planRows = 0
  /\ Absent(node, "Plan Width") => node.planWidth = 0
  /\ Absent(node, "Filter") => node.filter = Undef
  /\ Absent(node, "Index Cond") => node.indexCond = Undef
  /\ Absent(node, "Sort Key") => node.sortKey = Undef
  /\ Absent(node, "Actual Rows") => node.actualRows = Undef /\ node.rowsAccuracy = <<>>
  /\ Absent(node, "Actual Loops") => node.actualLoops = Undef
  /\ Absent(node, "Actual Startup Time") => node.actualStartupTime = Undef
  /\ Absent(node, "Actual Total Time") => node.actualTotalTime = Undef
  /\ Absent(node, "Node Type") => node.nodeType = "Unknown"

\* an absent loop count counts as 1: in the elapsed time of every timing entry,
\* in its loops field and in the root's elapsed time all shares are taken of
LoopsDefaultToOne ==
  result.analyzeMetrics.t = "metrics" =>
    /\ OneTimingPerTimedNode
    /\ SharesOf(RootElapsed, RootElapsed <= 0)
    /\ \A i \in TimedRaw :
         Absent(result.flattenedNodes[i], "Actual Loops") =>
           \E k \in 1..Len(result.analyzeMetrics.nodeTimings) :
             /\ result.analyzeMetrics.nodeTimings[k].nodeId = result.flattenedNodes[i].id
             /\ result.analyzeMetrics.nodeTimings[k].loops = 1
             /\ result.analyzeMetrics.nodeTimings[k].actualTime
                  = Get(RawNodes[i], "Actual Total Time").v

\* the statement as given: an absent relation name stays absent
C25_MissingFieldsDefaultRelationAbsent ==
  /\ pc = "analyzed" => result.kind = "result"
  /\ Analyzed =>
       /\ \A i \in 1..Len(result.flattenedNodes) :
            /\ DefaultsOf(result.flattenedNodes[i])
            /\ Absent(result.flattenedNodes[i], "Relation Name")
                 => result.flattenedNodes[i].relationName = Undef
       /\ LoopsDefaultToOne

\* C25: a missing field of a plan node is never an error: in the flattened node
\* an absent total cost, startup cost, row estimate or width is 0, an absent
\* filter, index condition, sort key or actual-execution field stays absent, an
\* absent relation name is the alias, absent when there is no alias either, an
\* absent node type is "Unknown", and an absent loop count counts as 1 wherever
\* a time is multiplied by it.
C25_MissingFieldsDefaultRelationAlias ==
  /\ pc = "analyzed" => result.kind = "result"
  /\ Analyzed =>
       /\ \A i \in 1..Len(result.flattenedNodes) :
            /\ DefaultsOf(result.flattenedNodes[i])
            /\ Absent(result.flattenedNodes[i], "Relation Name")
                 => result.flattenedNodes[i].relationName
                      = Get(result.flattenedNodes[i].raw, "Alias")
       /\ LoopsDefaultToOne

\* a root without a loop count, a node without any field and a node with an
\* alias and no relation name
C25_Witness ==
  /\ Analyzed
  /\ Len(result.flattenedNodes) = 3
  /\ Absent(result.flattenedNodes[1], "Actual Loops")
  /\ result.analyzeMetrics.t = "metrics"
  /\ \E i, j \in 2..3 :
       /\ \A k \in NodeFields : Absent(result.flattenedNodes[i], k)
       /\ result.flattenedNodes[i].nodeType = "Unknown"
       /\ Absent(result.flattenedNodes[j], "Relation Name")
       /\ result.flattenedNodes[j].relationName = Str("a")

(***************************************************************************)
(* Node ids of one tree, under Spec                                        *)
(***************************************************************************)
\* C26: all flattened nodes of one plan tree have pairwise distinct ids,
\* including sibling nodes that have the same node type and the same relation
\* name (or none) under the same parent.
C26_NodeIdsPairwiseDistinct ==
  Analyzed =>
    \A i, j \in 1..Len(result.flattenedNodes) :
      i # j => result.flattenedNodes[i].id # result.flattenedNodes[j].id

(***************************************************************************)
(* The running sum of the shares, under SpecCost                           *)
(***************************************************************************)
NoNegativeCost ==
  \A i \in 1..Len(result.flattenedNodes) : result.flattenedNodes[i].totalCost >= 0

\* C27: when the root total cost is positive and no node has a negative total
\* cost, every node has a contribution and the cumulativePercentage of every
\* contribution equals 100.
C27_CumulativePercentageIsHundred ==
  (Analyzed /\ result.flattenedNodes[1].totalCost > 0 /\ NoNegativeCost) =>
    /\ \A i \in 1..Len(result.flattenedNodes) :
         result.flattenedNodes[i].id \in DOMAIN result.costContributions
    /\ \A id \in DOMAIN result.costContributions :
         result.costContributions[id].cumulativePercentage.n
           = 100 * result.costContributions[id].cumulativePercentage.d

\* a root of cost 100 with a costlier child before it and a free child after
\* it in descending-cost order
C27_Witness ==
  /\ Analyzed /\ result.flattenedNodes[1].totalCost = 100 /\ NoNegativeCost
  /\ Len(result.flattenedNodes) = 3
  /\ \E i, j \in 2..3 :
       /\ result.flattenedNodes[i].totalCost = 150
       /\ result.flattenedNodes[j].totalCost = 0
       /\ result.costContributions[result.flattenedNodes[j].id].cumulativePercentage.n
            = 100 * result.costContributions[result.flattenedNodes[j].id].cumulativePercentage.d

(***************************************************************************)
(* The head of the bottleneck list, under SpecBottleneck                   *)
(***************************************************************************)
\* C28: whenever the root total cost is positive, the bottleneck list of
\* analyzePlan is non-empty and its first entry has score >= 40 and severity
\* high or critical.
C28_PositiveRootCostGivesBottleneck ==
  (Analyzed /\ result.flattenedNodes[1].totalCost > 0) =>
    /\ Len(result.bottlenecks) >= 1
    /\ result.bottlenecks[1].score >= 40
    /\ result.bottlenecks[1].severity \in {"high", "critical"}

\* more candidates than the list holds, with the root, of score 40, cut from it
C28_Witness ==
  /\ Analyzed /\ result.flattenedNodes[1].totalCost > 0
  /\ Len(result.flattenedNodes) > Len(result.bottlenecks)
  /\ \A k \in 1..Len(result.bottlenecks) :
       /\ result.bottlenecks[k].node.id # result.flattenedNodes[1].id
       /\ result.bottlenecks[k].score > 40

(***************************************************************************)
(* SpecMaps: after analyzePlan the caller passes the flattened nodes of    *)
(* the result to generateOptimizationSuggestions once more, with another   *)
(* contribution map.  In this specification accuracies holds that second   *)
(* call: its map, the suggestions pushed, and the list returned.           *)
(***************************************************************************)
MaxMapNodes == 3

MapRoots == {Attributed("Result", 1, Num(1000))}
MapPalette ==
  {Attributed(type, 100000, Num(cost)) :
     type \in {"Seq Scan", "Sort", "Nested Loop", "CTE Scan", "Index Scan"}, cost \in {100, 400}}

\* the map without the entries of the ids dropped
Dropping(contributions, dropped) ==
  [id \in DOMAIN contributions \ dropped |-> contributions[id]]

\* the maps of the second call: those calculateCostContributions gives for the
\* nodes with some root cost (none at all with 0), and the analysis's own map
\* without the entry of one node
ContributionMaps(nodes) ==
  {calculateCostContributions(nodes, rootCost) : rootCost \in {0, 400, 1000, 100000}}
    \cup {Dropping(calculateCostContributions(nodes, 1000), {nodes[i].id}) : i \in 1..Len(nodes)}

InitMaps == InitWith(MapRoots)
AddToMaps == AddChild(MapPalette, MaxMapNodes, RootOnly)
AnalyzeMaps == Analyze(ArrayOnly(tree))
\* generateOptimizationSuggestions(result.flattenedNodes, contributions)
SuggestAgain ==
  /\ pc = "analyzed"
  /\ result.kind = "result"
  /\ \E contributions \in ContributionMaps(result.flattenedNodes) :
       accuracies' =
         [contributions |-> contributions,
          generated |-> generatedSuggestions(result.flattenedNodes, contributions).items,
          suggestions |-> generateOptimizationSuggestions(result.flattenedNodes,
                                                          contributions).items]
  /\ pc' = "rendered"
  /\ UNCHANGED <<tree, planRaw, result, locals, heap>>
NextMaps == AddToMaps \/ AnalyzeMaps \/ SuggestAgain
SpecMaps == InitMaps /\ [][NextMaps]_vars

\* the suggestions without their priorities
WithoutPriority(suggestions) ==
  [k \in 1..Len(suggestions) |-> [suggestions[k] EXCEPT !.priority = ""]]

\* the priority every rule gives at a cost share of 0
PriorityAtZero(category) ==
  IF category \in {"filter", "general"} THEN "medium" ELSE "low"

\* C29: which suggestions are generated does not depend on the cost
\* contributions: for the same flattened nodes, the suggestions generated
\* before the 10-item cap with any contribution map, including the empty one,
\* are those of the analysis in the same order and differ from them in their
\* priorities at most; a node without a contribution is treated as having
\* cost share 0.
C29_GeneratedSuggestionsIndependentOfContributions ==
  (pc = "rendered" /\ result.kind = "result") =>
    /\ WithoutPriority(accuracies.generated) = WithoutPriority(Generated)
    /\ \A k \in 1..Len(accuracies.generated) :
         accuracies.generated[k].nodeId \notin DOMAIN accuracies.contributions
           => accuracies.generated[k].priority
                = PriorityAtZero(accuracies.generated[k].category)

\* a second call with the empty map after an analysis that gave a critical and
\* a high suggestion: the same two suggestions, both low
C29_Witness ==
  /\ pc = "rendered" /\ result.kind = "result"
  /\ DOMAIN accuracies.contributions = {}
  /\ Len(accuracies.generated) >= 2
  /\ \E a, b \in 1..Len(result.suggestions) :
       /\ result.suggestions[a].priority = "critical"
       /\ result.suggestions[b].priority = "medium"
       /\ result.suggestions[b].category = "join"
  /\ \A k \in 1..Len(accuracies.generated) :
       accuracies.generated[k].category \in {"index", "sort", "join"}
         => accuracies.generated[k].priority = "low"

(***************************************************************************)
(* SpecLookup: findRelationName step by step.  After analyzePlan, a lookup *)
(* is started on a node of the result; locals holds the target, the stack  *)
(* of the calls in progress (one frame per call: its targetNode, its       *)
(* childNodes and the position of its loop, nodes named by their index in  *)
(* the list) and the value a call that just ended hands to its caller;     *)
(* accuracies holds what the outermost call returned.  The calls run on    *)
(* one thread, so a call in progress always takes its next step.           *)
(***************************************************************************)
MaxLookupNodes == 4

LookupRoots == {Sorted("Sort", Undef, 100000, Arr(<<Str("a")>>)), Sorted("Result", Str("r"), 1, Undef)}
LookupPalette == {Sorted("Limit", Undef, 1, Undef), Sorted("Seq Scan", Str("t"), 1, Undef)}

NoReturn == [t |-> "none"]

\* nodes.filter((n) => n.parentId === targetNode.id), as indices into nodes
childNodesOf(nodes, target) ==
  LET F[j \in 0..Len(nodes)] ==
        IF j = 0 THEN <<>>
        ELSE IF nodes[j].parentId = Str(nodes[target].id) THEN Append(F[j - 1], j)
        ELSE F[j - 1]
  IN  F[Len(nodes)]

\* the frame of a call findRelationName(nodes, nodes[target]) at its start
FrameOf(nodes, target) ==
  [targetNode |-> target, childNodes |-> childNodesOf(nodes, target), i |-> 1]

\* the part after the loop: the relation name of the first node whose id is the
\* target's parentId, else null
parentRelation(nodes, target) ==
  LET parents == {j \in 1..Len(nodes) : nodes[target].parentId = Str(nodes[j].id)}
  IN  IF Truthy(nodes[target].parentId) /\ parents # {}
         /\ Truthy(nodes[CHOOSE j \in parents : \A k \in parents : j <= k].relationName)
      THEN nodes[CHOOSE j \in parents : \A k \in parents : j <= k].relationName
      ELSE Null

\* faulty variant: the loop stays on the child whose lookup found nothing
sameChild(i) == i

\* for (const child of childNodes): the position after the child at i
nextChild(i) == i + 1

Top == locals.stack[Len(locals.stack)]
Popped == SubSeq(locals.stack, 1, Len(locals.stack) - 1)
InLoop == pc = "looking" /\ locals.ret = NoReturn /\ Top.i <= Len(Top.childNodes)

InitLookup == InitWith(LookupRoots)
AddToLookup == AddChild(LookupPalette, MaxLookupNodes, Paths(tree))
AnalyzeLookup == Analyze(ArrayOnly(tree))

\* findRelationName(nodes, node), called for a node of the list
StartLookup ==
  /\ pc = "analyzed"
  /\ result.kind = "result"
  /\ \E target \in 1..Len(result.flattenedNodes) :
       locals' = [target |-> target,
                  stack |-> <<FrameOf(result.flattenedNodes, target)>>,
                  ret |-> NoReturn]
  /\ pc' = "looking"
  /\ UNCHANGED <<tree, planRaw, result, accuracies, heap>>

\* if (child.relationName) return child.relationName
ReturnChild ==
  /\ InLoop
  /\ Truthy(result.flattenedNodes[Top.childNodes[Top.i]].relationName)
  /\ locals' = [locals EXCEPT !.stack = Popped,
                              !.ret = result.flattenedNodes[Top.childNodes[Top.i]].relationName]
  /\ UNCHANGED <<tree, planRaw, result, accuracies, heap, pc>>

\* const childRelation = findRelationName(nodes, child): the recursive call
Descend ==
  /\ InLoop
  /\ ~Truthy(result.flattenedNodes[Top.childNodes[Top.i]].relationName)
  /\ locals' = [locals EXCEPT
                  !.stack = Append(@, FrameOf(result.flattenedNodes, Top.childNodes[Top.i]))]
  /\ UNCHANGED <<tree, planRaw, result, accuracies, heap, pc>>

\* after the loop: return parent.relationName, or null
ReturnParent ==
  /\ pc = "looking" /\ locals.ret = NoReturn
  /\ Top.i > Len(Top.childNodes)
  /\ locals' = [locals EXCEPT !.stack = Popped,
                              !.ret = parentRelation(result.flattenedNodes, Top.targetNode)]
  /\ UNCHANGED <<tree, planRaw, result, accuracies, heap, pc>>

\* if (childRelation) return childRelation
ReturnFound ==
  /\ pc = "looking" /\ locals.ret # NoReturn /\ locals.stack # <<>>
  /\ Truthy(locals.ret)
  /\ locals' = [locals EXCEPT !.stack = Popped]
  /\ UNCHANGED <<tree, planRaw, result, accuracies, heap, pc>>

\* childRelation is null: on to the next child
NextChild ==
  /\ pc = "looking" /\ locals.ret # NoReturn /\ locals.stack # <<>>
  /\ ~Truthy(locals.ret)
  /\ locals' = [locals EXCEPT !.stack[Len(locals.stack)].i = nextChild(@),
                              !.ret = NoReturn]
  /\ UNCHANGED <<tree, planRaw, result, accuracies, heap, pc>>

\* the outermost call has returned
ReturnLookup ==
  /\ pc = "looking" /\ locals.ret # NoReturn /\ locals.stack = <<>>
  /\ accuracies' = locals.ret
  /\ pc' = "returned"
  /\ UNCHANGED <<tree, planRaw, result, locals, heap>>

LookupStep == ReturnChild \/ Descend \/ ReturnParent \/ ReturnFound \/ NextChild \/ ReturnLookup
NextLookup == AddToLookup \/ AnalyzeLookup \/ StartLookup \/ LookupStep
SpecLookup == InitLookup /\ [][NextLookup]_vars /\ WF_vars(LookupStep)

\* every call in progress but the outermost was made for a node whose parentId
\* is the id of its caller's node, and whose id is strictly longer
CallsGoDown ==
  pc = "looking" =>
    \A k \in 1..(Len(locals.stack) - 1) :
      LET caller == result.flattenedNodes[locals.stack[k].targetNode]
          callee == result.flattenedNodes[locals.stack[k + 1].targetNode]
      IN  /\ callee.parentId = Str(caller.id)
          /\ Len(callee.id) > Len(caller.id)

\* what the outermost call returned is what findRelationName gives
ReturnsLookup ==
  pc = "returned" =>
    accuracies = findRelationName(result.flattenedNodes, result.flattenedNodes[locals.target])

\* C30: the recursive relation-name lookup terminates on every node list
\* produced by flattenPlanTree, also when several nodes share one id: each
\* recursive call moves to a node whose parentId is the current node's id and
\* whose id is strictly longer, and every lookup that was started returns, with
\* the value of findRelationName.
C30_LookupTerminates ==
  /\ [](CallsGoDown /\ ReturnsLookup)
  /\ (pc = "looking") ~> (pc = "returned")

\* three calls in progress, the innermost for a child of one of two nodes that
\* share one id
C30_Witness ==
  /\ pc = "looking"
  /\ Len(locals.stack) = 3
  /\ \E a, b \in 1..Len(result.flattenedNodes) :
       /\ a # b
       /\ result.flattenedNodes[a].id = result.flattenedNodes[b].id
       /\ locals.stack[2].targetNode = a
       /\ Len(locals.stack[2].childNodes) >= 1


====
